---- MODULE Spec2Model ----
(***************************************************************************)
(* Model of the consent lifecycle, the cross-party account aggregation and *)
(* the balance-allocation (rebalancing) logic of banking-box.              *)
(*                                                                         *)
(* Money is counted in cents (1/100) and shares in hundredths of a percent *)
(* (1/100 %), so that Decimal arithmetic with two fraction digits becomes  *)
(* integer arithmetic.                                                     *)
(***************************************************************************)
EXTENDS Integers, Sequences, FiniteSets, TLC

(***************************************************************************)
(* Bounds                                                                  *)
(***************************************************************************)
\* largest account list one counterparty returns in one response
MaxAccounts == 1

\* select(Bank).where(Bank.external.is_(True)): the rows in table order
external_banks == <<1, 2, 3>>

Banks == {external_banks[j] : j \in 1..Len(external_banks)}

\* ConsentRequest rows the lifecycle model creates
MaxRequests == 1
\* last tick of the clock
MaxTime == 2

VARIABLES
    bankOk,        \* bank -> the row has a code and an api_url
    bankConsents,  \* Consent rows written by the aggregator (bank_id set)
    nextCid,       \* next consent reference id a counterparty issues
    agg,           \* the aggregation call: position, locals, result, wire log
    budget,        \* aggregation calls that may still be started
    requests,      \* consent_requests table, in order of creation
    consents,      \* consents table (rows granted by own clients)
    autoApprove,   \* the auto-approval policy of the bank
    now,           \* the clock
    resp,          \* the answer of the endpoint called last
    external_accounts, \* the list the aggregation returned for the client
    allocations,   \* virtual_balance_bank_allocations rows of the client
    plan,          \* the answer of apply_balance_allocations
    verdict,       \* the answer of validate_target_share_sum
    reply,         \* the answer of the allocation endpoint called last
    payments,      \* payments created for the client
    cache,         \* the entries of the response cache (Redis)
    runs,          \* how often the body of a cached endpoint has run
    served,        \* the answer of the cached endpoint called last
    calls,         \* overlapping aggregation calls at one counterparty
    paymentConsents, \* payment_consents table
    paying         \* payment requests that passed the consent check

aggVars == <<bankOk, bankConsents, nextCid, agg, budget>>

lifeVars == <<requests, consents, autoApprove, now, resp>>

allocVars == <<external_accounts, allocations, plan, verdict, reply, payments>>

cacheVars == <<cache, runs, served>>

raceVars == <<calls>>

payVars == <<paymentConsents, paying>>

vars == <<bankOk, bankConsents, nextCid, agg, budget,
          requests, consents, autoApprove, now, resp,
          external_accounts, allocations, plan, verdict, reply, payments,
          cache, runs, served, calls, paymentConsents, paying>>

NoId == 0

\* the lifecycle tables as they are after the migrations, before any request
NoResp ==
    [op |-> "none", code |-> 0, status |-> "", consent |-> NoId,
     arg |-> NoId, client |-> 0, party |-> ""]

\* nothing was asked of the allocation endpoints
NoPlan == [status |-> "none"]

NoVerdict == [op |-> "none"]

\* no allocation endpoint was called, no row was committed
NoReply == [op |-> "none", code |-> 0, detail |-> "", at |-> 0]

AllocIdle ==
    /\ external_accounts = <<>>
    /\ allocations = {}
    /\ plan = NoPlan
    /\ verdict = NoVerdict
    /\ reply = NoReply
    /\ payments = {}

\* an empty cache; no cached endpoint was called
NoServed == [op |-> "none"]

CacheIdle ==
    /\ cache = {}
    /\ runs = 0
    /\ served = NoServed

\* no payment consent on file, no payment request in flight
PayIdle ==
    /\ paymentConsents = <<>>
    /\ paying = <<>>

\* no overlapping calls
RaceIdle == calls = <<>>

LifeIdle ==
    /\ requests = <<>>
    /\ consents = <<>>
    /\ autoApprove = FALSE
    /\ now = 0
    /\ resp = NoResp

(***************************************************************************)
(* Aggregation: services/account_service.get_external_accounts_for_client  *)
(***************************************************************************)

\* outcomes of POST /account-consents/request as the code distinguishes them
ConsentOutcomes == {"ok", "noid", "http", "exc"}
\* outcomes of GET /accounts as the code distinguishes them
FetchStatus == {"200", "403", "500", "timeout", "connerr"}
\* outcomes of GET /accounts/{id}/balances: a 200 with a balance, another
\* status, a timeout or connection error, a 200 whose body holds no balance
BalanceOutcomes == {"ok", "non200", "exc", "empty"}

\* an element of the returned list
AccountEntry(b, k, bal) ==
    [bank |-> b, account |-> k, balance |-> bal, error |-> ""]

ErrorEntry(b, msg) ==
    [bank |-> b, account |-> 0, balance |-> "none", error |-> msg]

\* a request put on the wire: kind, the x-consent-id it presents, its answer
Req(b, kind, cid) ==
    [bank |-> b, kind |-> kind, cid |-> cid, res |-> "pending", n |-> 0]

IdleCall ==
    [pc |-> "idle", i |-> 1, tokens |-> [b \in Banks |-> FALSE],
     consent |-> NoId, consent_id |-> NoId, new_consent_id |-> NoId,
     accounts |-> <<>>, log |-> <<>>]

\* select(Consent).where(client, bank_id == b, status == "active")
\* variant: the lookup finds no row
ActiveConsents_None(b) == {}

ActiveConsents(b) ==
    {r \in bankConsents : r.bank = b /\ r.status = "active"}

\* Consent(consent_id=..., bank_id=b, status="active"); db.add; db.commit
NewConsent(b, cid) == [cid |-> cid, bank |-> b, status |-> "active"]

\* variant: the rejected row is removed from the table
MarkExpired_Deleted(rows, consent) ==
    {r \in rows : r.cid # consent}

\* consent.status = "expired"; db.commit  (only when the lookup found a row)
MarkExpired(rows, consent) ==
    IF consent # NoId
    THEN {IF r.cid = consent THEN [r EXCEPT !.status = "expired"] ELSE r
          : r \in rows}
    ELSE rows

\* variant: a bank without a token leaves no trace in the result
TokenMissingEntries_Silent(b) == <<>>

\* the entry appended when app_state_tokens holds no token for the bank
TokenMissingEntries(b) == <<ErrorEntry(b, "Token not available")>>

\* the entry appended when no consent id could be obtained
ConsentRequiredEntries(b) == <<ErrorEntry(b, "CONSENT_REQUIRED")>>

\* variant: a failed first fetch leaves no trace in the result
FetchFailureEntries_Dropped(b, st) == <<>>

\* the entry appended for a first fetch that is neither 200 nor 403
FetchFailureEntries(b, st) ==
    CASE st = "timeout" -> <<ErrorEntry(b, "Timeout")>>
      [] st = "connerr" -> <<ErrorEntry(b, "Connection error")>>
      [] OTHER          -> <<ErrorEntry(b, "HTTP 500")>>

\* balance of one account: the amount on a 200 with a balance, else None
BalanceOf(o) == IF o = "ok" THEN "amt" ELSE "none"

\* variant: a failed balance fetch ends the walk through the account list
RECURSIVE AccountEntries_Abort(_, _, _, _)
AccountEntries_Abort(b, n, bal, k) ==
    IF k > n \/ bal[k] # "ok" THEN <<>>
    ELSE <<AccountEntry(b, k, BalanceOf(bal[k]))>>
         \o AccountEntries_Abort(b, n, bal, k + 1)

\* for account in account_list: fetch balance, append {account, balance}
RECURSIVE AccountEntries(_, _, _, _)
AccountEntries(b, n, bal, k) ==
    IF k > n THEN <<>>
    ELSE <<AccountEntry(b, k, BalanceOf(bal[k]))>>
         \o AccountEntries(b, n, bal, k + 1)

\* the balance requests sent while walking the account list
RECURSIVE BalanceReqs(_, _, _, _, _)
BalanceReqs(b, n, bal, cid, k) ==
    IF k > n THEN <<>>
    ELSE <<[Req(b, "balance", cid) EXCEPT !.res = BalanceOf(bal[k])]>>
         \o BalanceReqs(b, n, bal, cid, k + 1)

\* what the log keeps of an answer the code treats as a failure
Failed(res) == IF res \in {"ok", "200", "403"} THEN res ELSE "fail"

\* the answer of the request sent last is filled into the log
Answer(log, res, n) ==
    [log EXCEPT ![Len(log)] = [@ EXCEPT !.res = res, !.n = n]]

\* variant: a counterparty's entries replace the list gathered so far
NextBank_Restart(c, entries) ==
    [c EXCEPT !.pc = "loop", !.i = @ + 1,
              !.consent = NoId, !.consent_id = NoId, !.new_consent_id = NoId,
              !.accounts = IF entries # <<>> /\ entries[1].account = 0
                           THEN entries ELSE @ \o entries]

\* continue: the loop moves to the next bank
NextBank(c, entries) ==
    [c EXCEPT !.pc = "loop", !.i = @ + 1,
              !.consent = NoId, !.consent_id = NoId, !.new_consent_id = NoId,
              !.accounts = @ \o entries]

\* the call is entered with the tokens of app.state
AggStart(toks) ==
    /\ agg.pc = "idle"
    /\ budget > 0
    \* get_external_bank_tokens leaves token = None for an incomplete row
    /\ \A b \in Banks : toks[b] => bankOk[b]
    /\ budget' = budget - 1
    /\ agg' = [IdleCall EXCEPT !.pc = "loop", !.tokens = toks]
    /\ UNCHANGED <<bankOk, bankConsents, nextCid>>
    /\ UNCHANGED <<lifeVars, allocVars, cacheVars, raceVars, payVars>>

\* top of the loop body up to the first await on the counterparty
AggLoop ==
    /\ agg.pc = "loop"
    /\ LET b == IF agg.i <= Len(external_banks)
                THEN external_banks[agg.i] ELSE 0
           act == ActiveConsents(b)
       IN  IF agg.i > Len(external_banks)
           THEN agg' = [agg EXCEPT !.pc = "done"]
           ELSE IF ~bankOk[b]
           THEN agg' = NextBank(agg, <<>>)
           ELSE IF ~agg.tokens[b]
           THEN agg' = NextBank(agg, TokenMissingEntries(b))
           ELSE IF Cardinality(act) > 1
           \* scalar_one_or_none raises MultipleResultsFound
           THEN agg' = NextBank(agg, <<ErrorEntry(b, "Error")>>)
           ELSE IF Cardinality(act) = 1
           THEN LET r == CHOOSE x \in act : TRUE
                IN  agg' = [agg EXCEPT
                              !.pc = "fetch",
                              !.consent = r.cid,
                              !.consent_id = r.cid,
                              !.log = Append(@, Req(b, "accounts", r.cid))]
           ELSE agg' = [agg EXCEPT
                          !.pc = "consent",
                          !.log = Append(@, Req(b, "consent", NoId))]
    /\ UNCHANGED <<bankOk, bankConsents, nextCid, budget>>
    /\ UNCHANGED <<lifeVars, allocVars, cacheVars, raceVars, payVars>>

\* answer to the consent request sent because no stored consent was found
AggConsentResp(o) ==
    /\ agg.pc = "consent"
    /\ LET b == external_banks[agg.i]
       IN  IF o = "ok"
           THEN /\ bankConsents' = bankConsents \cup {NewConsent(b, nextCid)}
                /\ nextCid' = nextCid + 1
                /\ agg' = [agg EXCEPT
                             !.pc = "fetch",
                             !.consent_id = nextCid,
                             !.log = Append(Answer(@, o, 0),
                                            Req(b, "accounts", nextCid))]
           ELSE /\ agg' = [NextBank(agg, ConsentRequiredEntries(b))
                             EXCEPT !.log = Answer(@, Failed(o), 0)]
                /\ UNCHANGED <<bankConsents, nextCid>>
    /\ UNCHANGED <<bankOk, budget>>
    /\ UNCHANGED <<lifeVars, allocVars, cacheVars, raceVars, payVars>>

\* answer to the first GET /accounts, with the balance fetches of a 200
\* (trunc: after the n accounts the list holds an item that is no JSON
\* object, so account.get raises once their entries have been appended)
AggFetchResp(st, n, trunc, bal) ==
    /\ agg.pc = "fetch"
    /\ LET b == external_banks[agg.i]
       IN  CASE st = "200" ->
                 /\ agg' = [NextBank(agg,
                               AccountEntries(b, n, bal, 1) \o
                               (IF trunc THEN <<ErrorEntry(b, "Error")>>
                                         ELSE <<>>))
                             EXCEPT !.log = Answer(@, st, n) \o
                               BalanceReqs(b, n, bal, agg.consent_id, 1)]
                 /\ UNCHANGED bankConsents
            [] st = "403" ->
                 /\ bankConsents' = MarkExpired(bankConsents, agg.consent)
                 /\ agg' = [agg EXCEPT
                              !.pc = "retryConsent",
                              !.log = Append(Answer(@, st, 0),
                                             Req(b, "consent", NoId))]
            [] OTHER ->
                 /\ agg' = [NextBank(agg, FetchFailureEntries(b, st))
                             EXCEPT !.log = Answer(@, st, 0)]
                 /\ UNCHANGED bankConsents
    /\ UNCHANGED <<bankOk, nextCid, budget>>
    /\ UNCHANGED <<lifeVars, allocVars, cacheVars, raceVars, payVars>>

\* answer to the consent request sent after a 403
AggRetryConsentResp(o) ==
    /\ agg.pc = "retryConsent"
    /\ LET b == external_banks[agg.i]
       IN  IF o = "ok"
           THEN /\ bankConsents' = bankConsents \cup {NewConsent(b, nextCid)}
                /\ nextCid' = nextCid + 1
                /\ agg' = [agg EXCEPT
                             !.pc = "retryFetch",
                             !.new_consent_id = nextCid,
                             !.log = Append(Answer(@, o, 0),
                                            Req(b, "accounts", nextCid))]
           ELSE /\ agg' = [NextBank(agg, ConsentRequiredEntries(b))
                             EXCEPT !.log = Answer(@, Failed(o), 0)]
                /\ UNCHANGED <<bankConsents, nextCid>>
    /\ UNCHANGED <<bankOk, budget>>
    /\ UNCHANGED <<lifeVars, allocVars, cacheVars, raceVars, payVars>>

\* variant: a 403 on the retry starts another refresh cycle
AggRetryFetchResp_Again(st, n, trunc, bal) ==
    /\ agg.pc = "retryFetch"
    /\ LET b == external_banks[agg.i]
       IN  IF st = "200"
           THEN agg' = [NextBank(agg,
                           AccountEntries(b, n, bal, 1) \o
                           (IF trunc THEN ConsentRequiredEntries(b)
                                     ELSE <<>>))
                         EXCEPT !.log = Answer(@, st, n) \o
                           BalanceReqs(b, n, bal, agg.new_consent_id, 1)]
           ELSE IF st = "403"
           THEN agg' = [agg EXCEPT
                          !.pc = "retryConsent",
                          !.log = Append(Answer(@, st, 0),
                                         Req(b, "consent", NoId))]
           ELSE agg' = [NextBank(agg, ConsentRequiredEntries(b))
                         EXCEPT !.log = Answer(@, Failed(st), 0)]
    /\ UNCHANGED <<bankOk, bankConsents, nextCid, budget>>
    /\ UNCHANGED <<lifeVars, allocVars, cacheVars, raceVars, payVars>>

\* answer to the retried GET /accounts
AggRetryFetchResp(st, n, trunc, bal) ==
    /\ agg.pc = "retryFetch"
    /\ LET b == external_banks[agg.i]
       IN  IF st = "200"
           THEN agg' = [NextBank(agg,
                           AccountEntries(b, n, bal, 1) \o
                           (IF trunc THEN ConsentRequiredEntries(b)
                                     ELSE <<>>))
                         EXCEPT !.log = Answer(@, st, n) \o
                           BalanceReqs(b, n, bal, agg.new_consent_id, 1)]
           ELSE agg' = [NextBank(agg, ConsentRequiredEntries(b))
                         EXCEPT !.log = Answer(@, Failed(st), 0)]
    /\ UNCHANGED <<bankOk, bankConsents, nextCid, budget>>
    /\ UNCHANGED <<lifeVars, allocVars, cacheVars, raceVars, payVars>>

\* the rows a counterparty may already have on file when a call starts
InitialConsents(stored) ==
    UNION {{[cid |-> 2 * (b - 1) + k, bank |-> b, status |-> "active"]
            : k \in 1..stored[b]} : b \in Banks}

\* a consent is on file only for a bank that could be asked for one
InitAgg ==
    /\ bankOk \in [Banks -> BOOLEAN]
    /\ \E stored \in [Banks -> 0..2] :
          /\ \A b \in Banks : stored[b] > 0 => bankOk[b]
          /\ bankConsents = InitialConsents(stored)
    /\ nextCid = 2 * Len(external_banks) + 1
    /\ agg = IdleCall
    /\ budget = 1
    /\ LifeIdle
    /\ AllocIdle
    /\ CacheIdle
    /\ RaceIdle
    /\ PayIdle

NextAgg ==
    \/ \E toks \in [Banks -> BOOLEAN] : AggStart(toks)
    \/ AggLoop
    \/ \E o \in ConsentOutcomes : AggConsentResp(o)
    \/ \E st \in FetchStatus, n \in 0..MaxAccounts, trunc \in BOOLEAN :
          \E bal \in [1..n -> BalanceOutcomes] :
             AggFetchResp(st, n, trunc, bal)
    \/ \E o \in ConsentOutcomes : AggRetryConsentResp(o)
    \/ \E st \in FetchStatus, n \in 0..MaxAccounts, trunc \in BOOLEAN :
          \E bal \in [1..n -> BalanceOutcomes] :
             AggRetryFetchResp(st, n, trunc, bal)

SpecAgg == InitAgg /\ [][NextAgg]_vars

\* aggregation calls made one after the other
MaxSequential == 2

\* the call has returned its list; the next call starts afresh
AggReturn ==
    /\ agg.pc = "done"
    /\ budget > 0
    /\ agg' = IdleCall
    /\ UNCHANGED <<bankOk, bankConsents, nextCid, budget>>
    /\ UNCHANGED <<lifeVars, allocVars, cacheVars, raceVars, payVars>>

\* one counterparty is configured; it has a consent on file or none
InitReuse ==
    /\ bankOk = [b \in Banks |-> b = external_banks[1]]
    /\ \E stored \in [Banks -> 0..1] :
          /\ \A b \in Banks : stored[b] > 0 => bankOk[b]
          /\ bankConsents = InitialConsents(stored)
    /\ nextCid = 2 * Len(external_banks) + 1
    /\ agg = IdleCall
    /\ budget = MaxSequential
    /\ LifeIdle
    /\ AllocIdle
    /\ CacheIdle
    /\ RaceIdle
    /\ PayIdle

NextReuse ==
    \/ AggStart(bankOk)
    \/ AggLoop
    \/ \E o \in ConsentOutcomes : AggConsentResp(o)
    \/ \E st \in FetchStatus, n \in 0..MaxAccounts, trunc \in BOOLEAN :
          \E bal \in [1..n -> BalanceOutcomes] :
             AggFetchResp(st, n, trunc, bal)
    \/ \E o \in ConsentOutcomes : AggRetryConsentResp(o)
    \/ \E st \in FetchStatus, n \in 0..MaxAccounts, trunc \in BOOLEAN :
          \E bal \in [1..n -> BalanceOutcomes] :
             AggRetryFetchResp(st, n, trunc, bal)
    \/ AggReturn

SpecReuse == InitReuse /\ [][NextReuse]_vars

\* the consent id the counterparty issued last; rows are never deleted
LatestIssued(b) ==
    LET ids == {r.cid : r \in {x \in bankConsents : x.bank = b}}
    IN  IF ids = {} THEN NoId
        ELSE CHOOSE m \in ids : \A x \in ids : x <= m

\* the last of the sequential calls runs against a counterparty that
\* accepts every consent request and answers 200, with a complete list, to
\* every fetch presenting the consent it issued last
Recovered == budget = 0

NextRecover ==
    \/ AggStart(bankOk)
    \/ AggLoop
    \/ \E o \in ConsentOutcomes :
          /\ Recovered => o = "ok"
          /\ AggConsentResp(o)
    \/ \E st \in FetchStatus, n \in 0..MaxAccounts, trunc \in BOOLEAN :
          \E bal \in [1..n -> BalanceOutcomes] :
             /\ agg.pc = "fetch"
             /\ Recovered =>
                   /\ st \in {"200", "403"}
                   /\ st = "403" =>
                         agg.consent_id # LatestIssued(external_banks[agg.i])
                   /\ ~trunc
             /\ AggFetchResp(st, n, trunc, bal)
    \/ \E o \in ConsentOutcomes :
          /\ Recovered => o = "ok"
          /\ AggRetryConsentResp(o)
    \/ \E st \in FetchStatus, n \in 0..MaxAccounts, trunc \in BOOLEAN :
          \E bal \in [1..n -> BalanceOutcomes] :
             /\ Recovered => st = "200" /\ ~trunc
             /\ AggRetryFetchResp(st, n, trunc, bal)
    \/ AggReturn

SpecRecover == InitReuse /\ [][NextRecover]_vars

\* accounts a counterparty lists when the balance fetches are looked at
MaxFetched == 2

\* every counterparty is configured, holds a token and has one consent
InitBalance ==
    /\ bankOk = [b \in Banks |-> TRUE]
    /\ bankConsents = InitialConsents([b \in Banks |-> 1])
    /\ nextCid = 2 * Len(external_banks) + 1
    /\ agg = IdleCall
    /\ budget = 1
    /\ LifeIdle
    /\ AllocIdle
    /\ CacheIdle
    /\ RaceIdle
    /\ PayIdle

NextBalance ==
    \/ AggStart([b \in Banks |-> TRUE])
    \/ AggLoop
    \/ \E st \in {"200", "timeout"}, n \in 0..MaxFetched, trunc \in BOOLEAN :
          \E bal \in [1..n -> BalanceOutcomes] :
             AggFetchResp(st, n, trunc, bal)

SpecBalance == InitBalance /\ [][NextBalance]_vars

(***************************************************************************)
(* Overlapping aggregation calls: the consent lookup, the consent request  *)
(* and the commit of one counterparty are separate awaits                  *)
(***************************************************************************)
\* aggregation calls in flight for the same client
MaxCalls == 3

Calls == 1..MaxCalls

\* the counterparty the overlapping calls are serving
RaceBank == external_banks[1]

\* a call: its position, the consent id it holds, whether it sent a consent
\* request, and how the request was answered
Call(pc, consent_id, sent, res) ==
    [pc |-> pc, consent_id |-> consent_id, sent |-> sent, res |-> res]

\* select(Consent) ... scalar_one_or_none(), then the branch on the result
RaceLookup(p) ==
    /\ calls[p].pc = "start"
    /\ LET act == ActiveConsents(RaceBank)
       IN  calls' = [calls EXCEPT ![p] =
              IF Cardinality(act) > 1
              THEN Call("error", NoId, FALSE, "")
              ELSE IF Cardinality(act) = 1
              THEN Call("fetch", (CHOOSE r \in act : TRUE).cid, FALSE, "")
              ELSE Call("consent", NoId, TRUE, "")]
    /\ UNCHANGED <<bankOk, bankConsents, nextCid, agg, budget>>
    /\ UNCHANGED <<lifeVars, allocVars, cacheVars, payVars>>

\* variant: the row is saved only when no active row is on file
RaceConsentResp_Single(p, o) ==
    /\ calls[p].pc = "consent"
    /\ IF o = "ok"
       THEN /\ bankConsents' =
                 IF ActiveConsents(RaceBank) = {}
                 THEN bankConsents \cup {NewConsent(RaceBank, nextCid)}
                 ELSE bankConsents
            /\ nextCid' = nextCid + 1
            /\ calls' = [calls EXCEPT ![p] = Call("fetch", nextCid, TRUE, o)]
       ELSE /\ calls' = [calls EXCEPT ![p] = Call("required", NoId, TRUE, o)]
            /\ UNCHANGED <<bankConsents, nextCid>>
    /\ UNCHANGED <<bankOk, agg, budget>>
    /\ UNCHANGED <<lifeVars, allocVars, cacheVars, payVars>>

\* answer to POST /account-consents/request: on a 200 with an id the row is
\* added and committed
RaceConsentResp(p, o) ==
    /\ calls[p].pc = "consent"
    /\ IF o = "ok"
       THEN /\ bankConsents' = bankConsents \cup {NewConsent(RaceBank, nextCid)}
            /\ nextCid' = nextCid + 1
            /\ calls' = [calls EXCEPT ![p] = Call("fetch", nextCid, TRUE, o)]
       ELSE /\ calls' = [calls EXCEPT ![p] = Call("required", NoId, TRUE, o)]
            /\ UNCHANGED <<bankConsents, nextCid>>
    /\ UNCHANGED <<bankOk, agg, budget>>
    /\ UNCHANGED <<lifeVars, allocVars, cacheVars, payVars>>

InitRace ==
    /\ bankOk = [b \in Banks |-> TRUE]
    /\ \E stored \in [Banks -> 0..2] :
          /\ \A b \in Banks : b # RaceBank => stored[b] = 0
          /\ bankConsents = InitialConsents(stored)
    /\ nextCid = 2 * Len(external_banks) + 1
    /\ agg = IdleCall
    /\ budget = 0
    /\ calls = [p \in Calls |-> Call("start", NoId, FALSE, "")]
    /\ PayIdle
    /\ LifeIdle
    /\ AllocIdle
    /\ CacheIdle

NextRace ==
    \/ \E p \in Calls : RaceLookup(p)
    \/ \E p \in Calls, o \in ConsentOutcomes : RaceConsentResp(p, o)

SpecRace == InitRace /\ [][NextRace]_vars

(***************************************************************************)
(* Consent lifecycle: api/consents.py and api/accounts.py over             *)
(* services/consent_service.ConsentService                                 *)
(***************************************************************************)
Clients == {1, 2}
NoClient == 0
Parties == {"bankA", "bankB"}
NoParty == ""
\* ConsentRequestBody.requesting_bank when the body names none
DefaultParty == "bankA"
Permissions == {"ReadAccountsDetail", "ReadBalances"}
\* the permission lists requesting parties send
PermSets == {Permissions, {"ReadBalances"}}
SignActions == {"approve", "reject"}
NoTime == -1
\* ticks an approved consent stays valid
Horizon == 1

RequestIds == 1..(MaxRequests + 1)
ConsentIds == 1..(MaxRequests + 1)

Resp(op, code, status, consent, arg, client, party) ==
    [op |-> op, code |-> code, status |-> status, consent |-> consent,
     arg |-> arg, client |-> client, party |-> party]

\* the active Consent a request is promoted to
Promote(req, rid, t) ==
    [request |-> rid, client |-> req.client, granted_to |-> req.party,
     perms |-> req.perms, status |-> "active", exp |-> t + Horizon,
     revoked_at |-> NoTime]

\* ConsentService.create_consent_request
create_consent_request(client, party, perms) ==
    LET rid == Len(requests) + 1
        req == [client |-> client, party |-> party, perms |-> perms,
                status |-> IF autoApprove THEN "approved" ELSE "pending",
                responded_at |-> IF autoApprove THEN now ELSE NoTime]
    IN  [requests |-> Append(requests, req),
         consents |-> IF autoApprove
                      THEN Append(consents, Promote(req, rid, now))
                      ELSE consents,
         request |-> rid,
         consent |-> IF autoApprove THEN Len(consents) + 1 ELSE NoId]

\* a pending request with this id exists for this client
PendingFor(rid, client) ==
    /\ rid \in 1..Len(requests)
    /\ requests[rid].client = client
    /\ requests[rid].status = "pending"

\* ConsentService.sign_consent; found = FALSE stands for the ValueError
service_sign_consent(rid, client, action) ==
    IF ~PendingFor(rid, client)
    THEN [found |-> FALSE, requests |-> requests, consents |-> consents,
          status |-> "", consent |-> NoId]
    ELSE IF action = "approve"
    THEN [found |-> TRUE,
          requests |-> [requests EXCEPT ![rid].status = "approved",
                                        ![rid].responded_at = now],
          consents |-> Append(consents, Promote(requests[rid], rid, now)),
          status |-> "approved", consent |-> Len(consents) + 1]
    ELSE [found |-> TRUE,
          requests |-> [requests EXCEPT ![rid].status = "rejected",
                                        ![rid].responded_at = now],
          consents |-> consents,
          status |-> "rejected", consent |-> NoId]

\* ConsentService.revoke_consent
service_revoke_consent(cid, client) ==
    IF /\ cid \in 1..Len(consents)
       /\ consents[cid].client = client
       /\ consents[cid].status = "active"
    THEN [success |-> TRUE,
          consents |-> [consents EXCEPT ![cid].status = "revoked",
                                        ![cid].revoked_at = now]]
    ELSE [success |-> FALSE, consents |-> consents]

\* ConsentService.check_consent: a usable consent, or NoId
check_consent(client, party, permissions) ==
    LET ok == {k \in 1..Len(consents) :
                 /\ consents[k].client = client
                 /\ consents[k].granted_to = party
                 /\ consents[k].status = "active"
                 /\ ~(now > consents[k].exp)
                 /\ permissions \subseteq consents[k].perms}
    IN  IF ok = {} THEN NoId ELSE CHOOSE k \in ok : TRUE

\* POST /account-consents/request
request_consent(client, header_party, body_party, perms) ==
    /\ Len(requests) < MaxRequests
    /\ LET requesting_bank == IF header_party # NoParty THEN header_party
                              ELSE body_party
           r == create_consent_request(client, requesting_bank, perms)
       IN  /\ requests' = r.requests
           /\ consents' = r.consents
           /\ resp' = Resp("request", 200,
                           IF r.consent # NoId THEN "approved" ELSE "pending",
                           r.consent, r.request, NoClient, NoParty)
    /\ UNCHANGED <<autoApprove, now>>
    /\ UNCHANGED <<aggVars, allocVars, cacheVars, raceVars, payVars>>

\* variant: a failed sign is answered like a rejection
SignAnswer_Swallow(r, rid, client, action) ==
    IF action = "approve" /\ r.consent # NoId
    THEN Resp("sign", 200, "active", r.consent, rid, NoClient, NoParty)
    ELSE Resp("sign", 200, "rejected", NoId, rid, NoClient, NoParty)

\* variant: the consent of an approval is not handed back
SignAnswer_NoConsent(r, rid, client, action) ==
    IF ~r.found
    THEN Resp("sign", 404, "", NoId, rid, NoClient, NoParty)
    ELSE Resp("sign", 200, "rejected", NoId, rid, NoClient, NoParty)

\* what sign_consent returns for the outcome r of the service call
SignAnswer(r, rid, client, action) ==
    IF ~r.found
    THEN Resp("sign", 404, "", NoId, rid, NoClient, NoParty)
    ELSE IF action = "approve" /\ r.consent # NoId
    THEN Resp("sign", 200, "active", r.consent, rid, NoClient, NoParty)
    ELSE Resp("sign", 200, "rejected", NoId, rid, NoClient, NoParty)

\* POST /account-consents/sign
sign_consent(rid, client, action) ==
    /\ IF client = NoClient
       THEN /\ resp' = Resp("sign", 401, "", NoId, rid, NoClient, NoParty)
            /\ UNCHANGED <<requests, consents>>
       ELSE LET r == service_sign_consent(rid, client, action)
            IN  /\ requests' = r.requests
                /\ consents' = r.consents
                /\ resp' = SignAnswer(r, rid, client, action)
    /\ UNCHANGED <<autoApprove, now>>
    /\ UNCHANGED <<aggVars, allocVars, cacheVars, raceVars, payVars>>

\* variant: the outcome of the service call is not looked at
RevokeAnswer_Always(success, cid, client) ==
    Resp("revoke", 200, "Revoked", NoId, cid, NoClient, NoParty)

\* what revoke_consent returns for the outcome of the service call
RevokeAnswer(success, cid, client) ==
    IF ~success
    THEN Resp("revoke", 404, "", NoId, cid, NoClient, NoParty)
    ELSE Resp("revoke", 200, "Revoked", NoId, cid, NoClient, NoParty)

\* DELETE /account-consents/my-consents/{consent_id}
revoke_consent(cid, client) ==
    /\ IF client = NoClient
       THEN /\ resp' = Resp("revoke", 401, "", NoId, cid, NoClient, NoParty)
            /\ UNCHANGED consents
       ELSE LET r == service_revoke_consent(cid, client)
            IN  /\ consents' = r.consents
                /\ resp' = RevokeAnswer(r.success, cid, client)
    /\ UNCHANGED <<requests, autoApprove, now>>
    /\ UNCHANGED <<aggVars, allocVars, cacheVars, raceVars, payVars>>

\* variant: an interbank request is served without looking at the consent
AccountsAnswer_Open(client_id, party, current, consent) ==
    IF party # NoParty
    THEN IF client_id = NoClient
         THEN Resp("accounts", 400, "", NoId, NoId, client_id, party)
         ELSE Resp("accounts", 200, "", consent, NoId, client_id, party)
    ELSE IF current = NoClient
         THEN Resp("accounts", 401, "", NoId, NoId, current, party)
         ELSE Resp("accounts", 200, "", NoId, NoId, current, party)

\* what get_accounts answers; consent is the outcome of check_consent
AccountsAnswer(client_id, party, current, consent) ==
    IF party # NoParty
    THEN IF client_id = NoClient
         THEN Resp("accounts", 400, "", NoId, NoId, client_id, party)
         ELSE IF consent = NoId
         THEN Resp("accounts", 403, "CONSENT_REQUIRED", NoId, NoId,
                   client_id, party)
         ELSE Resp("accounts", 200, "", consent, NoId, client_id, party)
    ELSE IF current = NoClient
         THEN Resp("accounts", 401, "", NoId, NoId, current, party)
         ELSE Resp("accounts", 200, "", NoId, NoId, current, party)

\* GET /accounts
get_accounts(client_id, party, current) ==
    /\ resp' = AccountsAnswer(client_id, party, current,
                   IF party # NoParty /\ client_id # NoClient
                   THEN check_consent(client_id, party,
                                      {"ReadAccountsDetail"})
                   ELSE NoId)
    /\ UNCHANGED <<requests, consents, autoApprove, now>>
    /\ UNCHANGED <<aggVars, allocVars, cacheVars, raceVars, payVars>>

\* the accounts table: the client that owns account k
AccountOwner == <<1, 2>>

\* the account_id values of the path
AccountRefs == {"acc-1", "acc-2", "acc-9"}

\* int(account_id.replace("acc-", ""))
ParseAccountId(account_id) ==
    CASE account_id = "acc-1" -> 1
      [] account_id = "acc-2" -> 2
      [] account_id = "acc-9" -> 9

\* GET /accounts/{account_id}/balances
get_balances(account_id, party, current) ==
    /\ LET acc_id == ParseAccountId(account_id)
       IN  resp' = IF acc_id \in 1..Len(AccountOwner)
                   THEN Resp("balances", 200, "", NoId, acc_id,
                             AccountOwner[acc_id], party)
                   ELSE Resp("balances", 404, "", NoId, acc_id,
                             NoClient, party)
    /\ UNCHANGED <<requests, consents, autoApprove, now>>
    /\ UNCHANGED <<aggVars, allocVars, cacheVars, raceVars, payVars>>

\* time passes
Tick ==
    /\ now < MaxTime
    /\ now' = now + 1
    /\ UNCHANGED <<requests, consents, autoApprove, resp>>
    /\ UNCHANGED <<aggVars, allocVars, cacheVars, raceVars, payVars>>

AggIdle ==
    /\ bankOk = [b \in Banks |-> TRUE]
    /\ bankConsents = {}
    /\ nextCid = 1
    /\ agg = IdleCall
    /\ budget = 0

InitLife ==
    /\ requests = <<>>
    /\ consents = <<>>
    /\ autoApprove \in BOOLEAN
    /\ now = 0
    /\ resp = NoResp
    /\ AggIdle
    /\ AllocIdle
    /\ CacheIdle
    /\ RaceIdle
    /\ PayIdle

NextLife ==
    \/ \E cl \in Clients, hp \in Parties \cup {NoParty}, ps \in PermSets :
          request_consent(cl, hp, DefaultParty, ps)
    \/ \E rid \in RequestIds, cl \in Clients \cup {NoClient},
          a \in SignActions : sign_consent(rid, cl, a)
    \/ \E cid \in ConsentIds, cl \in Clients \cup {NoClient} :
          revoke_consent(cid, cl)
    \* an interbank call carries no client JWT, an own call no client_id
    \/ \E cl \in Clients \cup {NoClient}, p \in Parties :
          get_accounts(cl, p, NoClient)
    \/ \E cur \in Clients \cup {NoClient} :
          get_accounts(NoClient, NoParty, cur)
    \/ \E ref \in AccountRefs, p \in Parties :
          get_balances(ref, p, NoClient)
    \/ Tick

SpecLife == InitLife /\ [][NextLife]_vars

(***************************************************************************)
(* Payments: api/payments.create_payment                                   *)
(***************************************************************************)
\* rows of the payment_consents table
MaxPayConsents == 1
\* payment requests between the consent check and the end of the handler
MaxInFlight == 2
\* payments the model creates
MaxPayments == 2

\* the client whose JWT the payment requests carry
Payer == 1

PayStatuses == {"active", "revoked", "expired", "used"}

\* a PaymentConsent row; its consent_id is its position in the table
PayConsent(granted_to, status, exp) ==
    [granted_to |-> granted_to, status |-> status, exp |-> exp]

\* the tables a payment request may meet
PayTables ==
    UNION {[1..n -> {PayConsent(g, st, Horizon) :
                        g \in Parties, st \in PayStatuses}] :
           n \in 0..MaxPayConsents}

\* the references a request may carry: none, a row, or no row
PayRefs == 0..(MaxPayConsents + 1)

\* variant: the lookup goes by consent_id alone
UsablePayConsents_Unfiltered(cid) ==
    {k \in 1..Len(paymentConsents) : k = cid}

\* select(PaymentConsent).where(consent_id == ..., status == "active",
\* expiration_date_time > utcnow())
UsablePayConsents(cid) ==
    {k \in 1..Len(paymentConsents) :
        /\ k = cid
        /\ paymentConsents[k].status = "active"
        /\ paymentConsents[k].exp > now}

\* HTTPException raised by create_payment
PayError(code, error, cid, cur, party) ==
    /\ resp' = Resp("create_payment", code, error, cid, NoId, cur, party)
    /\ UNCHANGED <<paymentConsents, paying, payments>>

\* the request goes on to PaymentService.initiate_payment
PayProceed(cid, cur, party) ==
    /\ Len(paying) < MaxInFlight
    /\ paying' = Append(paying, [consent |-> cid, client |-> cur,
                                 party |-> party])
    /\ UNCHANGED <<paymentConsents, payments, resp>>

\* POST /payments up to the await of initiate_payment
create_payment(cur, party, cid, initiation) ==
    /\ IF cur = NoClient
       THEN PayError(401, "Unauthorized", cid, cur, party)
       ELSE IF party # NoParty /\ cid = NoId
       THEN PayError(403, "PAYMENT_CONSENT_REQUIRED", cid, cur, party)
       ELSE IF party # NoParty /\ UsablePayConsents(cid) = {}
       THEN PayError(403, "INVALID_CONSENT", cid, cur, party)
       ELSE IF party # NoParty /\ paymentConsents[cid].granted_to # party
       THEN PayError(403, "CONSENT_MISMATCH", cid, cur, party)
       ELSE IF ~initiation
       THEN PayError(400, "Missing initiation data", cid, cur, party)
       ELSE PayProceed(IF party # NoParty THEN cid ELSE NoId, cur, party)
    /\ UNCHANGED <<requests, consents, autoApprove, now>>
    /\ UNCHANGED <<external_accounts, allocations, plan, verdict, reply>>
    /\ UNCHANGED <<aggVars, cacheVars, raceVars>>

\* consent.status = "used" on the row with this consent_id, whatever its
\* status
MarkUsed(rows, cid) ==
    IF cid \in 1..Len(rows) THEN [rows EXCEPT ![cid].status = "used"]
    ELSE rows

\* POST /payments from the answer of initiate_payment on: the payment is
\* created and the consent marked used, or a ValueError is answered 400
create_payment_done(k, ok) ==
    /\ k \in 1..Len(paying)
    /\ LET f == paying[k]
       IN  IF ok
           THEN /\ Cardinality(payments) < MaxPayments
                /\ payments' = payments \cup
                      {[id |-> Cardinality(payments) + 1,
                        consent |-> f.consent]}
                /\ paymentConsents' = MarkUsed(paymentConsents, f.consent)
                /\ resp' = Resp("create_payment", 201, "", f.consent, NoId,
                                f.client, f.party)
           ELSE /\ resp' = Resp("create_payment", 400, "ValueError",
                                f.consent, NoId, f.client, f.party)
                /\ UNCHANGED <<paymentConsents, payments>>
    /\ paying' = SubSeq(paying, 1, k - 1) \o SubSeq(paying, k + 1, Len(paying))
    /\ UNCHANGED <<requests, consents, autoApprove, now>>
    /\ UNCHANGED <<external_accounts, allocations, plan, verdict, reply>>
    /\ UNCHANGED <<aggVars, cacheVars, raceVars>>

InitPay ==
    /\ paymentConsents \in PayTables
    /\ paying = <<>>
    /\ requests = <<>>
    /\ consents = <<>>
    /\ autoApprove = FALSE
    /\ now = 0
    /\ resp = NoResp
    /\ AggIdle
    /\ AllocIdle
    /\ CacheIdle
    /\ RaceIdle

NextPay ==
    \/ \E cur \in {Payer, NoClient}, party \in Parties \cup {NoParty},
          cid \in PayRefs, initiation \in BOOLEAN :
          create_payment(cur, party, cid, initiation)
    \/ \E k \in 1..MaxInFlight, ok \in BOOLEAN : create_payment_done(k, ok)
    \/ Tick

SpecPay == InitPay /\ [][NextPay]_vars

(***************************************************************************)
(* Balance allocations: api/balance_allocations.py                         *)
(***************************************************************************)
\* longest list of external accounts the allocation model starts from
MaxSnap == 3
\* most allocation rows on file when validate_target_share_sum is called
MaxRows == 2

\* the rank of a bank's code among the sorted codes: the table holds vbank,
\* abank, sbank in this order, and sorted() puts abank < sbank < vbank
CodeRank == <<3, 1, 2>>

\* accountId values; two banks may issue the same one
AccountIds == {"a", "b"}
\* an entry that carries no account
NoAccount == ""
\* balance None: the balance fetch gave nothing
NoBalance == -1
\* balances in cents
Balances == {NoBalance, 1, 10000, 90000}
\* target_share NULL
NoShare == -1
\* no allocation row for the bank
Absent == -2
AccountTypes == {"checking", "savings"}
\* shares on file, in 1/100 %: a store holds shares of one of these scales
ShareScales == {{5000, 7000}, {3333, 3334}}

StoredShares == UNION ShareScales
\* the target_share column of the rows validate_target_share_sum reads
RowShares == {NoShare, 3000, 7000}
\* shares a request may carry: Field(ge=0, le=100)
CandidateShares == {0, 3000, 7000, 10000}
\* 100 % and the 0.01 tolerance of the matcher
Hundred == 10000
Eps == 1

\* entries as get_external_accounts_for_client builds them
SnapAccount(b, id, bal) ==
    [bank |-> b, account |-> id, balance |-> bal, error |-> FALSE]

SnapError(b) ==
    [bank |-> b, account |-> NoAccount, balance |-> NoBalance, error |-> TRUE]

SnapEntries ==
    {SnapError(b) : b \in Banks}
    \cup {SnapAccount(b, id, bal) :
             b \in Banks, id \in AccountIds, bal \in Balances}

\* the aggregation visits the banks in table order and puts the error entry
\* of a bank, if any, after its accounts; a bank gives each of its accounts
\* an id of its own; account ids are opaque, so the first one is fixed
Snapshots ==
    {s \in UNION {[1..n -> SnapEntries] : n \in 0..MaxSnap} :
        /\ \A i \in 1..(Len(s) - 1) :
              /\ s[i].bank <= s[i + 1].bank
              /\ s[i].error => s[i].bank < s[i + 1].bank
              /\ s[i].bank = s[i + 1].bank /\ ~s[i + 1].error
                    => s[i].account = "a" /\ s[i + 1].account = "b"
        /\ \A i \in 1..Len(s) :
              (\A j \in 1..(i - 1) : s[j].error) /\ ~s[i].error
                 => s[i].account = "a"}

Row(id, b, type, share) ==
    [id |-> id, bank |-> b, type |-> type, share |-> share]

\* at most one checking row per bank
PlanStores ==
    {{Row(b, b, "checking", f[b]) : b \in {x \in Banks : f[x] # Absent}} :
        f \in UNION {[Banks -> scale \cup {Absent}] : scale \in ShareScales}}

Slots == Banks \X AccountTypes

SlotId(sl) == 2 * (sl[1] - 1) + (IF sl[2] = "checking" THEN 1 ELSE 2)

\* at most one row per bank and account type, MaxRows rows in all
ShareStores ==
    UNION {{{Row(SlotId(sl), sl[1], sl[2], f[sl]) : sl \in S} :
               f \in [S -> RowShares]} :
           S \in {T \in SUBSET Slots : Cardinality(T) <= MaxRows}}

RECURSIVE SumShares(_)
SumShares(rows) ==
    IF rows = {} THEN 0
    ELSE LET r == CHOOSE x \in rows : TRUE
         IN  r.share + SumShares(rows \ {r})

\* banks with at least one entry that holds an account and no error
bank_codes_with_accounts(accounts) ==
    {accounts[i].bank : i \in {j \in 1..Len(accounts) :
        accounts[j].account # NoAccount /\ ~accounts[j].error}}

\* rows that count towards existing_sum
CountedRows(live, exclude_allocation_id, exclude_bank_id) ==
    {r \in allocations :
        /\ ~(exclude_allocation_id # NoId /\ r.id = exclude_allocation_id)
        /\ ~(exclude_bank_id # NoId /\ r.bank = exclude_bank_id)
        /\ r.bank \in live
        /\ r.share # NoShare}

\* the banks that hold a share once the operation is done
banks_with_target_after_operation_Stored(live, exclude_allocation_id, exclude_bank_id) ==
    {r.bank : r \in CountedRows(live, exclude_allocation_id, exclude_bank_id)}

banks_with_target_after_operation(live, exclude_allocation_id, exclude_bank_id) ==
    {r.bank : r \in CountedRows(live, exclude_allocation_id, exclude_bank_id)}
    \cup (IF exclude_allocation_id # NoId
          THEN {r.bank : r \in {x \in allocations :
                   x.id = exclude_allocation_id /\ x.bank \in live}}
          ELSE IF exclude_bank_id # NoId
          THEN {exclude_bank_id} \cap live
          ELSE {})

Verdict(ok, msg, max) == [ok |-> ok, msg |-> msg, max |-> max]

\* what an empty list of live banks is answered
NoLiveVerdict(new_target_share) == Verdict(TRUE, "", Hundred)

validate_target_share_sum(new_target_share, accounts, exclude_allocation_id, exclude_bank_id) ==
    LET live == bank_codes_with_accounts(accounts)
        existing_sum ==
            SumShares(CountedRows(live, exclude_allocation_id,
                                  exclude_bank_id))
        with_target ==
            banks_with_target_after_operation(live, exclude_allocation_id,
                                              exclude_bank_id)
        max_allowed_share == Hundred - existing_sum
        total_sum == existing_sum + new_target_share
    IN  IF live = {} THEN NoLiveVerdict(new_target_share)
        ELSE IF total_sum > Hundred
        THEN Verdict(FALSE, "exceeds", max_allowed_share)
        ELSE IF Cardinality(with_target) = Cardinality(live)
                /\ total_sum # Hundred
        THEN Verdict(FALSE, "incomplete", max_allowed_share)
        ELSE Verdict(TRUE, "", max_allowed_share)

\* the call made by create_balance_allocation (mode "create", arg a bank id)
\* or by update_balance_allocation (mode "update", arg a row id)
Validate(mode, arg, share) ==
    /\ verdict = NoVerdict
    /\ mode = "update" => \E r \in allocations : r.id = arg
    /\ mode = "create" => arg \in Banks
    /\ verdict' =
          [op |-> mode, arg |-> arg, share |-> share,
           out |-> IF mode = "update"
                   THEN validate_target_share_sum(share, external_accounts,
                                                  arg, NoId)
                   ELSE validate_target_share_sum(share, external_accounts,
                                                  NoId, arg)]
    /\ UNCHANGED <<external_accounts, allocations, plan, reply, payments>>
    /\ UNCHANGED <<aggVars, lifeVars, cacheVars, raceVars, payVars>>

\* Decimal.quantize(Decimal("0.01")) of n / d, d > 0: ROUND_HALF_EVEN
RoundHalfEven(n, d) ==
    LET q == n \div d
        r == n % d
    IN  IF 2 * r < d THEN q
        ELSE IF 2 * r > d THEN q + 1
        ELSE IF q % 2 = 0 THEN q ELSE q + 1

\* (total_balance * share / Decimal("100")).quantize(Decimal("0.01")); the
\* product is taken in two parts so that it stays a small number
QuantizedShare_Whole(total_balance, share) ==
    100 * ((total_balance * (share \div 100)) \div 10000)

QuantizedShare(total_balance, share) ==
    LET hi == total_balance \div Hundred
        lo == total_balance % Hundred
    IN  hi * share + RoundHalfEven(lo * share + (hi * share % 2) * Hundred,
                                   Hundred)
           - (hi * share % 2)

Min(x, y) == IF x <= y THEN x ELSE y

\* Decimal(str(balance_str)) if balance_str else Decimal("0")
BalanceValue(bal) == IF bal = NoBalance THEN 0 ELSE bal

IsValidAccount(e) == e.account # NoAccount /\ ~e.error

RECURSIVE SumBalances(_)
SumBalances(accs) ==
    IF accs = <<>> THEN 0
    ELSE BalanceValue(Head(accs).balance) + SumBalances(Tail(accs))

\* sorted(bank_codes)
bank_codes_sorted(codes) ==
    CHOOSE s \in [1..Cardinality(codes) -> codes] :
        \A i, j \in 1..Cardinality(codes) :
            i < j => CodeRank[s[i]] < CodeRank[s[j]]

\* target_shares and empty_target_share_banks, given the row that
\* allocations_by_bank_code keeps for each bank
ShareOf(by_bank, b) ==
    IF by_bank[b] # Absent /\ by_bank[b] # NoShare THEN by_bank[b] ELSE NoShare

\* the amount of the last bank in sorted order
LastTargetAmount_Rounded(total_balance, share, calculated_sum) ==
    QuantizedShare(total_balance, share)

LastTargetAmount(total_balance, share, calculated_sum) ==
    total_balance - calculated_sum

\* target_bank_amounts from position i of the sorted codes on
RECURSIVE TargetBankAmounts(_, _, _, _, _, _)
TargetBankAmounts(sorted, i, shares, counts, total_balance, calculated_sum) ==
    IF i > Len(sorted) THEN <<>>
    ELSE LET b == sorted[i]
             target_amount ==
                 IF i < Len(sorted)
                 THEN QuantizedShare(total_balance, shares[b])
                 ELSE LastTargetAmount(total_balance, shares[b],
                                       calculated_sum)
         IN  <<[bank |-> b, target_share |-> shares[b],
                target_amount |-> target_amount,
                accounts_count |-> counts[b]]>>
             \o TargetBankAmounts(sorted, i + 1, shares, counts,
                                  total_balance,
                                  calculated_sum + target_amount)

\* target_account_balances: one row per valid account, in list order
TargetAccountBalances(valid, bank_amounts) ==
    [k \in 1..Len(valid) |->
        LET item == bank_amounts[CHOOSE j \in 1..Len(bank_amounts) :
                                    bank_amounts[j].bank = valid[k].bank]
        IN  [bank |-> valid[k].bank,
             account_id |-> valid[k].account,
             current_balance |-> BalanceValue(valid[k].balance),
             target_balance |->
                 RoundHalfEven(item.target_amount, item.accounts_count)]]

\* account_to_bank[account_id]: the dict keeps the bank written last
AccountToBank(tab, account_id) ==
    LET at == {k \in 1..Len(tab) : tab[k].account_id = account_id}
    IN  IF at = {} THEN NoId
        ELSE tab[CHOOSE k \in at : \A j \in at : j <= k].bank

IsSurplus(row) == row.current_balance - row.target_balance > Eps

IsDeficit(row) == row.current_balance - row.target_balance < -Eps

Queue(rows, sign) ==
    [k \in 1..Len(rows) |->
        [account_id |-> rows[k].account_id,
         amount |-> sign * (rows[k].current_balance
                            - rows[k].target_balance)]]

\* the while loop: S[si] and D[di] are the heads, sr and dr what is left of
\* their amounts
RECURSIVE Match(_, _, _, _, _, _, _)
Match(S, D, si, di, sr, dr, tab) ==
    IF si > Len(S) \/ di > Len(D) THEN <<>>
    ELSE LET transfer_amount == Min(sr, dr)
             pay == IF transfer_amount > Eps
                    THEN <<[source_account_id |-> S[si].account_id,
                            destination_account_id |-> D[di].account_id,
                            amount |-> transfer_amount,
                            source_bank_id |->
                                AccountToBank(tab, S[si].account_id),
                            destination_bank_id |->
                                AccountToBank(tab, D[di].account_id)]>>
                    ELSE <<>>
             si2 == IF sr - transfer_amount <= Eps THEN si + 1 ELSE si
             di2 == IF dr - transfer_amount <= Eps THEN di + 1 ELSE di
             sr2 == IF si2 = si THEN sr - transfer_amount
                    ELSE IF si2 <= Len(S) THEN S[si2].amount ELSE 0
             dr2 == IF di2 = di THEN dr - transfer_amount
                    ELSE IF di2 <= Len(D) THEN D[di2].amount ELSE 0
         IN  pay \o Match(S, D, si2, di2, sr2, dr2, tab)

\* variant: the surplus queue is drained from its last account
Matched_Reversed(tab) ==
    LET F == Queue(SelectSeq(tab, IsSurplus), 1)
        S == [k \in 1..Len(F) |-> F[Len(F) + 1 - k]]
        D == Queue(SelectSeq(tab, IsDeficit), -1)
    IN  Match(S, D, 1, 1,
              IF S = <<>> THEN 0 ELSE S[1].amount,
              IF D = <<>> THEN 0 ELSE D[1].amount, tab)

\* payments_list before the filter
Matched(tab) ==
    LET S == Queue(SelectSeq(tab, IsSurplus), 1)
        D == Queue(SelectSeq(tab, IsDeficit), -1)
    IN  Match(S, D, 1, 1,
              IF S = <<>> THEN 0 ELSE S[1].amount,
              IF D = <<>> THEN 0 ELSE D[1].amount, tab)

\* the filter on payments_list
KeepPayment_All(payment) == TRUE

KeepPayment(payment) ==
    ~(/\ payment.source_bank_id = payment.destination_bank_id
      /\ payment.source_account_id = payment.destination_account_id)

\* steps 4 to 6: the validation error of the shares, "" when there is none
ShareError_AnyEmpty(empty, total_target_share) ==
    IF total_target_share > Hundred THEN "exceeds"
    ELSE IF empty = {} /\ total_target_share # Hundred THEN "incomplete"
    ELSE ""

ShareError(empty, total_target_share) ==
    IF total_target_share > Hundred THEN "exceeds"
    ELSE IF empty = {} /\ total_target_share # Hundred THEN "incomplete"
    ELSE IF Cardinality(empty) > 1 THEN "many_empty"
    ELSE ""

\* apply_balance_allocations on a list of external accounts; by_bank[b] is
\* the share of the row allocations_by_bank_code keeps for b, or Absent
ComputePlan(accounts, by_bank) ==
    LET valid == SelectSeq(accounts, IsValidAccount)
        bank_codes == {valid[k].bank : k \in 1..Len(valid)}
        empty == {b \in bank_codes : ShareOf(by_bank, b) = NoShare}
        total_target_share ==
            SumShares({[bank |-> b, share |-> by_bank[b]] :
                          b \in bank_codes \ empty})
        total_balance == SumBalances(valid)
        counts == [b \in bank_codes |->
                     Cardinality({k \in 1..Len(valid) : valid[k].bank = b})]
        shares == [b \in bank_codes |->
                     IF b \in empty THEN Hundred - total_target_share
                     ELSE by_bank[b]]
        bank_amounts ==
            TargetBankAmounts(bank_codes_sorted(bank_codes), 1, shares,
                              counts, total_balance, 0)
        tab == TargetAccountBalances(valid, bank_amounts)
    IN  IF valid = <<>> THEN [status |-> "no_accounts"]
        ELSE IF Cardinality(bank_codes) = 1 THEN [status |-> "single_bank"]
        ELSE IF ShareError(empty, total_target_share) # ""
        THEN [status |-> "400",
              detail |-> ShareError(empty, total_target_share)]
        ELSE [status |-> "ok",
              external_accounts_count |-> Len(valid),
              total_balance |-> total_balance,
              target_bank_amounts |-> bank_amounts,
              target_account_balances |-> tab,
              payments_list |-> SelectSeq(Matched(tab), KeepPayment)]

\* the shares allocations_by_bank_code may end with: for each bank the row
\* the query returned last
KeptRows ==
    {f \in [Banks -> StoredShares \cup {NoShare, Absent}] :
        \A b \in Banks :
            IF \E r \in allocations : r.bank = b
            THEN \E r \in allocations : r.bank = b /\ r.share = f[b]
            ELSE f[b] = Absent}

\* variant: the instructions of the plan are created as payments
apply_balance_allocations_Execute ==
    /\ plan = NoPlan
    /\ \E by_bank \in KeptRows :
          plan' = ComputePlan(external_accounts, by_bank)
    /\ payments' = IF plan'.status = "ok"
                   THEN {plan'.payments_list[i] :
                           i \in 1..Len(plan'.payments_list)}
                   ELSE payments
    /\ UNCHANGED <<external_accounts, allocations, verdict, reply>>
    /\ UNCHANGED <<aggVars, lifeVars, cacheVars, raceVars, payVars>>

apply_balance_allocations ==
    /\ plan = NoPlan
    /\ \E by_bank \in KeptRows :
          plan' = ComputePlan(external_accounts, by_bank)
    /\ UNCHANGED <<external_accounts, allocations, verdict, reply, payments>>
    /\ UNCHANGED <<aggVars, lifeVars, cacheVars, raceVars, payVars>>

InitPlan ==
    /\ external_accounts \in Snapshots
    /\ allocations \in PlanStores
    /\ plan = NoPlan
    /\ verdict = NoVerdict
    /\ reply = NoReply
    /\ payments = {}
    /\ AggIdle
    /\ LifeIdle
    /\ CacheIdle
    /\ RaceIdle
    /\ PayIdle

NextPlan == apply_balance_allocations

SpecPlan == InitPlan /\ [][NextPlan]_vars

\* stores that may hold a checking and a savings row for the same bank
TypedStores ==
    UNION {{{Row(SlotId(sl), sl[1], sl[2], f[sl]) : sl \in S} :
               f \in [S -> {5000, 7000}]} :
           S \in {T \in SUBSET Slots : Cardinality(T) <= MaxRows}}

InitOrder ==
    /\ external_accounts \in
          {s \in Snapshots : \A i \in 1..Len(s) :
              ~s[i].error => s[i].account = "a" /\ s[i].balance = 10000}
    /\ allocations \in TypedStores
    /\ plan = NoPlan
    /\ verdict = NoVerdict
    /\ reply = NoReply
    /\ payments = {}
    /\ AggIdle
    /\ LifeIdle
    /\ CacheIdle
    /\ RaceIdle
    /\ PayIdle

NextOrder == apply_balance_allocations

SpecOrder == InitOrder /\ [][NextOrder]_vars

\* iterations of the matching loop the model follows
MaxSteps == 4

\* variant: a head is left only when more than its amount was drawn
Exhausted_Overdrawn(rest) == rest < 0

\* surplus["amount"] <= Decimal("0.01"): the head is left
Exhausted(rest) == rest <= Eps

\* steps 1 to 10 up to the while loop: the queues are built and both heads
\* stand at the front; a request that ends before the loop returns at once
MatchStart ==
    /\ plan = NoPlan
    /\ \E by_bank \in KeptRows :
          LET r == ComputePlan(external_accounts, by_bank)
              tab == r.target_account_balances
              S == Queue(SelectSeq(tab, IsSurplus), 1)
              D == Queue(SelectSeq(tab, IsDeficit), -1)
          IN  plan' = IF r.status # "ok" THEN r
                      ELSE [status |-> "matching",
                            target_account_balances |-> tab,
                            surplus_accounts |-> S,
                            deficit_accounts |-> D,
                            surplus_idx |-> 1,
                            deficit_idx |-> 1,
                            sr |-> IF S = <<>> THEN 0 ELSE S[1].amount,
                            dr |-> IF D = <<>> THEN 0 ELSE D[1].amount,
                            iterations |-> 0,
                            payments_list |-> <<>>]
    /\ UNCHANGED <<external_accounts, allocations, verdict, reply, payments>>
    /\ UNCHANGED <<aggVars, lifeVars, cacheVars, raceVars, payVars>>

\* one iteration of the while loop
MatchStep ==
    /\ plan.status = "matching"
    /\ plan.surplus_idx <= Len(plan.surplus_accounts)
    /\ plan.deficit_idx <= Len(plan.deficit_accounts)
    /\ plan.iterations < MaxSteps
    /\ LET S == plan.surplus_accounts
           D == plan.deficit_accounts
           si == plan.surplus_idx
           di == plan.deficit_idx
           tab == plan.target_account_balances
           transfer_amount == Min(plan.sr, plan.dr)
           pay == IF transfer_amount > Eps
                  THEN <<[source_account_id |-> S[si].account_id,
                          destination_account_id |-> D[di].account_id,
                          amount |-> transfer_amount,
                          source_bank_id |->
                              AccountToBank(tab, S[si].account_id),
                          destination_bank_id |->
                              AccountToBank(tab, D[di].account_id)]>>
                  ELSE <<>>
           si2 == IF Exhausted(plan.sr - transfer_amount) THEN si + 1 ELSE si
           di2 == IF Exhausted(plan.dr - transfer_amount) THEN di + 1 ELSE di
       IN  plan' = [plan EXCEPT
                      !.surplus_idx = si2,
                      !.deficit_idx = di2,
                      !.sr = IF si2 = si THEN plan.sr - transfer_amount
                             ELSE IF si2 <= Len(S) THEN S[si2].amount ELSE 0,
                      !.dr = IF di2 = di THEN plan.dr - transfer_amount
                             ELSE IF di2 <= Len(D) THEN D[di2].amount ELSE 0,
                      !.iterations = @ + 1,
                      !.payments_list = @ \o pay]
    /\ UNCHANGED <<external_accounts, allocations, verdict, reply, payments>>
    /\ UNCHANGED <<aggVars, lifeVars, cacheVars, raceVars, payVars>>

\* the loop is left: the filter runs and the plan is returned
MatchFinish ==
    /\ plan.status = "matching"
    /\ \/ plan.surplus_idx > Len(plan.surplus_accounts)
       \/ plan.deficit_idx > Len(plan.deficit_accounts)
    /\ plan' = [status |-> "ok",
                target_account_balances |-> plan.target_account_balances,
                payments_list |-> SelectSeq(plan.payments_list, KeepPayment)]
    /\ UNCHANGED <<external_accounts, allocations, verdict, reply, payments>>
    /\ UNCHANGED <<aggVars, lifeVars, cacheVars, raceVars, payVars>>

NextMatch ==
    \/ MatchStart
    \/ MatchStep
    \/ MatchFinish

SpecMatch == InitPlan /\ [][NextMatch]_vars

InitShare ==
    /\ external_accounts \in
          {s \in Snapshots : \A i \in 1..Len(s) :
              ~s[i].error => s[i].account = "a" /\ s[i].balance = 10000}
    /\ allocations \in ShareStores
    /\ plan = NoPlan
    /\ verdict = NoVerdict
    /\ reply = NoReply
    /\ payments = {}
    /\ AggIdle
    /\ LifeIdle
    /\ CacheIdle
    /\ RaceIdle
    /\ PayIdle

NextShare ==
    \/ \E b \in Banks, share \in CandidateShares :
          Validate("create", b, share)
    \/ \E id \in 1..(2 * Len(external_banks)), share \in CandidateShares :
          Validate("update", id, share)

SpecShare == InitShare /\ [][NextShare]_vars

(***************************************************************************)
(* The response cache: services/cache_utils.py and the cached endpoints    *)
(***************************************************************************)
\* bodies of cached endpoints the cache model runs
MaxRuns == 2
\* last page of the payment history that is asked for
MaxPage == 2

Namespace == "banking-box"

\* f"{client_id}" and f"{page}"
PersonId == <<"c1", "c2">>

PageStr == <<"1", "2", "3", "4">>

Pages == 1..MaxPage

NoPage == 0

\* a key is the sequence of the parts its string has between the colons
client_key_builder(func, client) ==
    <<Namespace, func, "client", PersonId[client]>>

client_page_key_builder(func, client, page) ==
    <<Namespace, func, "client", PersonId[client], "page", PageStr[page]>>

\* redis MATCH: the pattern covers the whole key, "*" stands for any text,
\* colons included, so for one part or more
RECURSIVE GlobMatch(_, _)
GlobMatch(pattern, key) ==
    IF pattern = <<>> THEN key = <<>>
    ELSE IF Head(pattern) = "*"
    THEN \E n \in 1..Len(key) :
            GlobMatch(Tail(pattern), SubSeq(key, n + 1, Len(key)))
    ELSE /\ key # <<>>
         /\ Head(key) = Head(pattern)
         /\ GlobMatch(Tail(pattern), Tail(key))

\* the entries left once invalidate_client_cache has deleted what it found
invalidate_client_cache(entries, client) ==
    LET pattern == <<Namespace, "*", "client", PersonId[client]>>
    IN  {e \in entries : ~GlobMatch(pattern, e.key)}

Served(op, client, page, force, code, hit, stamp) ==
    [op |-> op, client |-> client, page |-> page, force |-> force,
     code |-> code, hit |-> hit, stamp |-> stamp]

\* the @cache decorator: an entry under the key answers the request and the
\* body does not run; otherwise the body runs and its answer is stored
Cached(op, key, client, page, force) ==
    IF \E e \in cache : e.key = key
    THEN /\ served' = Served(op, client, page, force, 200, TRUE,
                             (CHOOSE e \in cache : e.key = key).stamp)
         /\ UNCHANGED <<cache, runs>>
    ELSE /\ runs < MaxRuns
         /\ runs' = runs + 1
         /\ cache' = cache \cup {[key |-> key, stamp |-> runs + 1]}
         /\ served' = Served(op, client, page, force, 200, FALSE, runs + 1)

\* GET /accounts/external
get_external_accounts(client, force_refresh) ==
    /\ Cached("get_external_accounts",
              client_key_builder("get_external_accounts", client),
              client, NoPage, force_refresh)
    /\ UNCHANGED <<aggVars, lifeVars, allocVars, raceVars, payVars>>

\* GET /payments/external/history
get_external_payment_history(client, page) ==
    /\ Cached("get_external_payment_history",
              client_page_key_builder("get_external_payment_history",
                                      client, page),
              client, page, FALSE)
    /\ UNCHANGED <<aggVars, lifeVars, allocVars, raceVars, payVars>>

\* the body of both refresh endpoints: redis_ok is whether Redis answers
Refresh(op, client, redis_ok) ==
    /\ IF redis_ok
       THEN /\ cache' = invalidate_client_cache(cache, client)
            /\ served' = Served(op, client, NoPage, FALSE, 200, FALSE, 0)
       ELSE /\ cache' = cache
            /\ served' = Served(op, client, NoPage, FALSE, 500, FALSE, 0)
    /\ UNCHANGED runs
    /\ UNCHANGED <<aggVars, lifeVars, allocVars, raceVars, payVars>>

\* POST /accounts/external/refresh
refresh_external_accounts(client, redis_ok) ==
    Refresh("refresh_external_accounts", client, redis_ok)

\* POST /payments/external/history/refresh
refresh_external_payment_history(client, redis_ok) ==
    Refresh("refresh_external_payment_history", client, redis_ok)

\* an entry reaches its expire time
Expire(e) ==
    /\ e \in cache
    /\ cache' = cache \ {e}
    /\ UNCHANGED <<runs, served>>
    /\ UNCHANGED <<aggVars, lifeVars, allocVars, raceVars, payVars>>

InitCache ==
    /\ CacheIdle
    /\ RaceIdle
    /\ PayIdle
    /\ AggIdle
    /\ LifeIdle
    /\ AllocIdle

NextCache ==
    \/ \E c \in Clients, f \in BOOLEAN : get_external_accounts(c, f)
    \/ \E c \in Clients, p \in Pages : get_external_payment_history(c, p)
    \/ \E c \in Clients, ok \in BOOLEAN : refresh_external_accounts(c, ok)
    \/ \E c \in Clients, ok \in BOOLEAN :
          refresh_external_payment_history(c, ok)
    \/ \E e \in cache : Expire(e)

SpecCache == InitCache /\ [][NextCache]_vars

(***************************************************************************)
(* Allocation endpoints: create, update, delete and the cached list        *)
(***************************************************************************)

\* the client whose rows the table holds
Holder == 1

\* a bank id no row of the banks table carries
UnknownBank == 0

\* the snapshot the endpoints validate against: two banks hold an account,
\* the third holds none
TargetSnapshots ==
    {s \in Snapshots :
        /\ Len(s) = 2
        /\ s[1].bank = 1 /\ s[2].bank = 2
        /\ \A i \in 1..Len(s) :
              ~s[i].error /\ s[i].account = "a" /\ s[i].balance = 10000}

\* shares the requests carry
TargetShares == {3000, 7000}

\* the answer of an allocation endpoint; at is the number of runs of the
\* list body that came before the last commit
Reply(op, code, detail, at) ==
    [op |-> op, code |-> code, detail |-> detail, at |-> at]

\* HTTPException raised before anything is written
Refuse(op, code, detail) ==
    /\ reply' = Reply(op, code, detail, reply.at)
    /\ UNCHANGED <<allocations, cache>>

\* db.commit, then the invalidation inside try / except Exception: a failure
\* of Redis is logged and the endpoint still answers 200
Commit(op, rows, redis_ok) ==
    /\ allocations' = rows
    /\ cache' = IF redis_ok THEN invalidate_client_cache(cache, Holder)
                ELSE cache
    /\ reply' = Reply(op, 200, "", runs)

\* POST /balance-allocations
create_balance_allocation(bank_id, target_share, account_type, redis_ok) ==
    /\ LET out == validate_target_share_sum(target_share, external_accounts,
                                            NoId, bank_id)
       IN  IF bank_id \notin Banks
           THEN Refuse("create", 404, "bank not found")
           ELSE IF \E r \in allocations :
                      r.bank = bank_id /\ r.type = account_type
           THEN Refuse("create", 400, "already exists")
           ELSE IF ~out.ok
           THEN Refuse("create", 400, out.msg)
           ELSE /\ Cardinality(allocations) < MaxRows
                /\ Commit("create",
                          allocations \cup
                            {Row(SlotId(<<bank_id, account_type>>), bank_id,
                                 account_type, target_share)},
                          redis_ok)
    /\ UNCHANGED <<external_accounts, plan, verdict, payments, runs, served>>
    /\ UNCHANGED <<aggVars, lifeVars, raceVars, payVars>>

\* variant: the share is written before it is validated
update_balance_allocation_Early(allocation_id, target_share, redis_ok) ==
    /\ LET out == validate_target_share_sum(target_share, external_accounts,
                                            allocation_id, NoId)
           rows == {IF r.id = allocation_id
                    THEN [r EXCEPT !.share = target_share] ELSE r :
                       r \in allocations}
       IN  IF ~\E r \in allocations : r.id = allocation_id
           THEN Refuse("update", 404, "not found")
           ELSE IF target_share # NoShare /\ ~out.ok
           THEN /\ reply' = Reply("update", 400, out.msg, reply.at)
                /\ allocations' = rows
                /\ UNCHANGED cache
           ELSE Commit("update",
                       IF target_share = NoShare THEN allocations ELSE rows,
                       redis_ok)
    /\ UNCHANGED <<external_accounts, plan, verdict, payments, runs, served>>
    /\ UNCHANGED <<aggVars, lifeVars, raceVars, payVars>>

\* PUT /balance-allocations/{allocation_id}; target_share = NoShare is a
\* request without target_share; the request carries no account_type
update_balance_allocation(allocation_id, target_share, redis_ok) ==
    /\ LET out == validate_target_share_sum(target_share, external_accounts,
                                            allocation_id, NoId)
           rows == {IF r.id = allocation_id
                    THEN [r EXCEPT !.share = target_share] ELSE r :
                       r \in allocations}
       IN  IF ~\E r \in allocations : r.id = allocation_id
           THEN Refuse("update", 404, "not found")
           ELSE IF target_share # NoShare /\ ~out.ok
           THEN Refuse("update", 400, out.msg)
           ELSE Commit("update",
                       IF target_share = NoShare THEN allocations ELSE rows,
                       redis_ok)
    /\ UNCHANGED <<external_accounts, plan, verdict, payments, runs, served>>
    /\ UNCHANGED <<aggVars, lifeVars, raceVars, payVars>>

\* DELETE /balance-allocations/{allocation_id}
delete_balance_allocation(allocation_id, redis_ok) ==
    /\ IF ~\E r \in allocations : r.id = allocation_id
       THEN Refuse("delete", 404, "not found")
       ELSE Commit("delete",
                   {r \in allocations : r.id # allocation_id}, redis_ok)
    /\ UNCHANGED <<external_accounts, plan, verdict, payments, runs, served>>
    /\ UNCHANGED <<aggVars, lifeVars, raceVars, payVars>>

\* GET /balance-allocations
get_balance_allocations ==
    /\ Cached("get_balance_allocations",
              client_key_builder("get_balance_allocations", Holder),
              Holder, NoPage, FALSE)
    /\ UNCHANGED <<aggVars, lifeVars, allocVars, raceVars, payVars>>

\* the ids a request names: those of the stored rows and one of no row
AllocationIds == {r.id : r \in allocations} \cup {NoId}

InitTargets ==
    /\ external_accounts \in TargetSnapshots
    /\ allocations = {}
    /\ plan = NoPlan
    /\ verdict = NoVerdict
    /\ reply = NoReply
    /\ payments = {}
    /\ AggIdle
    /\ LifeIdle
    /\ CacheIdle
    /\ RaceIdle
    /\ PayIdle

NextTargets ==
    \/ \E b \in Banks \cup {UnknownBank}, share \in TargetShares,
          t \in AccountTypes, ok \in BOOLEAN :
          create_balance_allocation(b, share, t, ok)
    \/ \E id \in AllocationIds,
          share \in TargetShares \cup {NoShare}, ok \in BOOLEAN :
          update_balance_allocation(id, share, ok)
    \/ \E id \in AllocationIds, ok \in BOOLEAN :
          delete_balance_allocation(id, ok)
    \/ get_balance_allocations
    \/ \E e \in cache : Expire(e)

SpecTargets == InitTargets /\ [][NextTargets]_vars

(***************************************************************************)
(* The operations that write a status, interleaved: consent requests and   *)
(* consents of own clients, consents obtained from a counterparty, and     *)
(* payment consents                                                        *)
(***************************************************************************)
\* one counterparty is configured and holds a token
OneBank == [b \in Banks |-> b = external_banks[1]]

InitStatus ==
    /\ bankOk = OneBank
    /\ \E stored \in [Banks -> 0..1] :
          /\ \A b \in Banks : stored[b] > 0 => bankOk[b]
          /\ bankConsents = InitialConsents(stored)
    /\ nextCid = 2 * Len(external_banks) + 1
    /\ agg = IdleCall
    /\ budget = 1
    /\ requests = <<>>
    /\ consents = <<>>
    /\ autoApprove = FALSE
    /\ now = 0
    /\ resp = NoResp
    /\ paymentConsents = <<PayConsent(DefaultParty, "active", Horizon)>>
    /\ paying = <<>>
    /\ AllocIdle
    /\ CacheIdle
    /\ RaceIdle

NextStatus ==
    \/ AggStart(OneBank)
    \/ AggLoop
    \/ \E o \in {"ok", "http"} : AggConsentResp(o)
    \/ \E st \in {"200", "403", "timeout"} :
          AggFetchResp(st, 0, FALSE, <<>>)
    \/ \E o \in {"ok", "http"} : AggRetryConsentResp(o)
    \/ \E st \in {"200", "403"} : AggRetryFetchResp(st, 0, FALSE, <<>>)
    \/ request_consent(Payer, DefaultParty, DefaultParty, Permissions)
    \/ \E rid \in RequestIds, a \in SignActions : sign_consent(rid, Payer, a)
    \/ \E cid \in ConsentIds : revoke_consent(cid, Payer)
    \/ \E cid \in PayRefs : create_payment(Payer, DefaultParty, cid, TRUE)
    \/ \E k \in 1..MaxInFlight, ok \in BOOLEAN : create_payment_done(k, ok)
    \/ Tick

SpecStatus == InitStatus /\ [][NextStatus]_vars

(***************************************************************************)
(* Properties of one aggregation call                                      *)
(***************************************************************************)
LogIdx == 1..Len(agg.log)

\* positions of the returned list that carry bank b
EntriesOf(b) == {k \in 1..Len(agg.accounts) : agg.accounts[k].bank = b}

\* positions of the log holding a GET /accounts sent to bank b
AccountFetches(b) ==
    {j \in LogIdx : agg.log[j].bank = b /\ agg.log[j].kind = "accounts"}

\* the last GET /accounts sent to b was answered 200 with an empty list
EmptyListAnswered(b) ==
    \E j \in AccountFetches(b) :
       /\ \A j2 \in AccountFetches(b) : j2 <= j
       /\ agg.log[j].res = "200"
       /\ agg.log[j].n = 0

\* the first GET /accounts sent to b was answered with st
FirstFetchAnswered(b, st) ==
    \E j \in AccountFetches(b) :
       /\ \A j2 \in AccountFetches(b) : j <= j2
       /\ agg.log[j].res = st

CurrentBank ==
    IF agg.i <= Len(external_banks) THEN external_banks[agg.i] ELSE NoId

RefreshFailedAt(j) ==
    /\ agg.log[j].res \in {"fail", "403"}
    /\ \/ /\ agg.log[j].kind = "consent"
          /\ j > 1
          /\ agg.log[j - 1].bank = agg.log[j].bank
          /\ agg.log[j - 1].kind = "accounts"
          /\ agg.log[j - 1].res = "403"
       \/ /\ agg.log[j].kind = "accounts"
          /\ \E j0 \in AccountFetches(agg.log[j].bank) : j0 < j

\* C5: per counterparty at most two account-list fetches are sent; the
\* second one follows a 403 on the first and a granted fresh consent; a
\* failed refresh or retry records CONSENT_REQUIRED and ends the traffic
\* with that counterparty.
C5_OneRetryPerBank ==
    \A b \in Banks :
       /\ Cardinality(AccountFetches(b)) <= 2
       /\ \A j \in AccountFetches(b) :
             (\E j0 \in AccountFetches(b) : j0 < j) =>
                /\ j > 2
                /\ agg.log[j - 2].bank = b
                /\ agg.log[j - 2].kind = "accounts"
                /\ agg.log[j - 2].res = "403"
                /\ agg.log[j - 1].bank = b
                /\ agg.log[j - 1].kind = "consent"
                /\ agg.log[j - 1].res = "ok"
       /\ \A j \in LogIdx :
             (agg.log[j].bank = b /\ RefreshFailedAt(j)) =>
                /\ \A j2 \in LogIdx : j2 > j => agg.log[j2].bank # b
                /\ \E k \in EntriesOf(b) :
                      agg.accounts[k].error = "CONSENT_REQUIRED"

\* a retry was sent and failed
C5_Witness ==
    \E b \in Banks : \E j \in AccountFetches(b) :
       /\ Cardinality(AccountFetches(b)) = 2
       /\ RefreshFailedAt(j)
       /\ agg.pc = "done"

\* the stored row with reference id cid
RowOf(cid) == {r \in bankConsents : r.cid = cid}

\* C10 (as claimed): when the call returns, every consent whose reference id
\* was presented in an account-list fetch answered 403 is stored as expired,
\* and the retry presents the freshly issued reference id.
C10_RejectedConsentExpired ==
    agg.pc = "done" =>
       \A j \in LogIdx :
          (agg.log[j].kind = "accounts" /\ agg.log[j].res = "403") =>
             /\ \A r \in RowOf(agg.log[j].cid) : r.status = "expired"
             /\ \A j2 \in AccountFetches(agg.log[j].bank) :
                   j2 > j => agg.log[j2].cid # agg.log[j].cid

(***************************************************************************)
(* Properties of the consent lifecycle                                     *)
(***************************************************************************)
\* consents that name request rid as their origin, in a table
OriginatedBy(table, rid) ==
    {k \in 1..Len(table) : table[k].request = rid}

\* C6: sign on a request that is not pending for the client (unknown, of
\* another client, already approved or rejected) is answered NotFound and
\* changes neither requests nor consents; a request that left pending never
\* changes again and is the origin of at most one consent.
C6_NoDoubleTransition ==
    [][ /\ \A rid \in RequestIds, cl \in Clients, a \in SignActions :
             (sign_consent(rid, cl, a) /\ ~PendingFor(rid, cl)) =>
                /\ resp'.code = 404
                /\ requests' = requests
                /\ consents' = consents
        /\ \A rid \in 1..Len(requests) :
             requests[rid].status # "pending" =>
                requests'[rid] = requests[rid]
        /\ \A rid \in 1..Len(requests') :
             Cardinality(OriginatedBy(consents', rid)) <= 1
      ]_vars

\* a sign was refused on a request that had been answered before
C6_Witness ==
    /\ resp.op = "sign"
    /\ resp.code = 404
    /\ resp.arg \in 1..Len(requests)
    /\ requests[resp.arg].status \in {"approved", "rejected"}

\* C7: sign on a pending request: approve appends exactly one consent, active,
\* granted to the requesting party, with the request's permissions, and sets
\* the request to approved with a responded timestamp; reject creates no
\* consent and sets the request to rejected with a responded timestamp.
C7_SignOutcome ==
    [][ \A rid \in RequestIds, cl \in Clients :
          PendingFor(rid, cl) =>
             /\ sign_consent(rid, cl, "approve") =>
                   /\ Len(consents') = Len(consents) + 1
                   /\ \A k \in 1..Len(consents) : consents'[k] = consents[k]
                   /\ consents'[Len(consents')].status = "active"
                   /\ consents'[Len(consents')].granted_to
                         = requests[rid].party
                   /\ consents'[Len(consents')].perms = requests[rid].perms
                   /\ consents'[Len(consents')].client = cl
                   /\ consents'[Len(consents')].request = rid
                   /\ requests'[rid].status = "approved"
                   /\ requests'[rid].responded_at = now
                   /\ requests'[rid].responded_at # NoTime
                   /\ resp'.code = 200
                   /\ resp'.consent = Len(consents')
             /\ sign_consent(rid, cl, "reject") =>
                   /\ consents' = consents
                   /\ requests'[rid].status = "rejected"
                   /\ requests'[rid].responded_at = now
                   /\ requests'[rid].responded_at # NoTime
                   /\ resp'.code = 200
                   /\ resp'.status = "rejected"
                   /\ resp'.consent = NoId
      ]_vars

\* an approval was signed and its consent handed back
C7_Witness ==
    /\ resp.op = "sign"
    /\ resp.code = 200
    /\ resp.consent \in 1..Len(consents)
    /\ consents[resp.consent].status = "active"
    /\ consents[resp.consent].request = resp.arg
    /\ requests[resp.arg].status = "approved"

\* consent k may be used by party p for client cl with these permissions
Usable(k, cl, p, perms) ==
    /\ consents[k].client = cl
    /\ consents[k].granted_to = p
    /\ consents[k].status = "active"
    /\ consents[k].exp >= now
    /\ perms \subseteq consents[k].perms

\* C8: checkConsent never returns a consent whose expiration has passed, and
\* returns only an active, unexpired consent of the client granted to the
\* requesting party with all required permissions; an interbank account-list
\* request without such a consent is answered 403 CONSENT_REQUIRED.
C8_CheckConsent ==
    [][ /\ \A cl \in Clients, p \in Parties, ps \in SUBSET Permissions :
             LET r == check_consent(cl, p, ps)
             IN  /\ r # NoId => r \in 1..Len(consents) /\ Usable(r, cl, p, ps)
                 /\ r = NoId =>
                       \A k \in 1..Len(consents) : ~Usable(k, cl, p, ps)
        /\ \A cl \in Clients, p \in Parties :
             get_accounts(cl, p, NoClient) =>
                /\ (\A k \in 1..Len(consents) :
                       ~Usable(k, cl, p, {"ReadAccountsDetail"})) =>
                      /\ resp'.code = 403
                      /\ resp'.status = "CONSENT_REQUIRED"
                /\ resp'.code = 200 =>
                      /\ resp'.consent \in 1..Len(consents)
                      /\ Usable(resp'.consent, cl, p, {"ReadAccountsDetail"})
      ]_vars

\* an account-list request was refused although a consent with status active,
\* whose expiration has passed, was stored for that client and party
C8_Witness ==
    /\ resp.op = "accounts"
    /\ resp.code = 403
    /\ \E k \in 1..Len(consents) :
          /\ consents[k].client = resp.client
          /\ consents[k].granted_to = resp.party
          /\ consents[k].status = "active"
          /\ "ReadAccountsDetail" \in consents[k].perms
          /\ consents[k].exp < now

\* C9: revoke succeeds only on an active consent of the client with that id,
\* and then sets status revoked and revoked-at; otherwise it fails and
\* changes nothing; so a second revoke of the same consent fails.
C9_Revoke ==
    [][ \A cid \in ConsentIds, cl \in Clients :
          revoke_consent(cid, cl) =>
             IF /\ cid \in 1..Len(consents)
                /\ consents[cid].client = cl
                /\ consents[cid].status = "active"
             THEN /\ resp'.code = 200
                  /\ Len(consents') = Len(consents)
                  /\ consents'[cid].status = "revoked"
                  /\ consents'[cid].revoked_at = now
                  /\ \A k \in 1..Len(consents) :
                        k # cid => consents'[k] = consents[k]
                  /\ requests' = requests
             ELSE /\ resp'.code = 404
                  /\ consents' = consents
                  /\ requests' = requests
      ]_vars

\* a consent was revoked and a second revoke of it was refused
C9_Witness ==
    /\ resp.op = "revoke"
    /\ resp.code = 404
    /\ resp.arg \in 1..Len(consents)
    /\ consents[resp.arg].status = "revoked"

\* consent k is active, not expired, of client cl and granted to party p
ValidFor(k, cl, p) ==
    /\ consents[k].client = cl
    /\ consents[k].granted_to = p
    /\ consents[k].status = "active"
    /\ consents[k].exp >= now

\* C16: a request made for another party, for the account list of a client
\* or for the balances of an account, is answered with data only if an
\* active, unexpired consent of the client granted to that party exists
\* when the request is made.
C16_ConsentGatesAccess ==
    [][ /\ \A cl \in Clients, p \in Parties :
             get_accounts(cl, p, NoClient) /\ resp'.code = 200 =>
                \E k \in 1..Len(consents) : ValidFor(k, cl, p)
        /\ \A ref \in AccountRefs, p \in Parties :
             get_balances(ref, p, NoClient) /\ resp'.code = 200 =>
                \E k \in 1..Len(consents) :
                   ValidFor(k, AccountOwner[ParseAccountId(ref)], p)
      ]_vars

(***************************************************************************)
(* Properties of the balance allocations                                   *)
(***************************************************************************)
\* the sum of the first n target amounts
RECURSIVE SumTargets(_, _)
SumTargets(t, n) ==
    IF n = 0 THEN 0 ELSE t[n].target_amount + SumTargets(t, n - 1)

RECURSIVE SumTargetShares(_, _)
SumTargetShares(t, n) ==
    IF n = 0 THEN 0 ELSE t[n].target_share + SumTargetShares(t, n - 1)

\* the balances of the entries that hold an account and no error, summed
LiveTotal ==
    LET live == {i \in 1..Len(external_accounts) :
                    /\ external_accounts[i].account # NoAccount
                    /\ ~external_accounts[i].error}
        val(i) == IF external_accounts[i].balance = NoBalance THEN 0
                  ELSE external_accounts[i].balance
        sum[S \in SUBSET live] ==
            IF S = {} THEN 0
            ELSE LET i == CHOOSE x \in S : TRUE
                 IN  val(i) + sum[S \ {i}]
    IN  sum[live]

\* a is total * share / 100 rounded to two digits, ties to the even digit
IsRounded(a, total, share) ==
    LET e == (total % Hundred) * share
             - (a - (total \div Hundred) * share) * Hundred
    IN  \/ -Hundred < 2 * e /\ 2 * e < Hundred
        \/ (2 * e = Hundred \/ 2 * e = -Hundred) /\ a % 2 = 0

\* C2: whenever a plan is computed the shares used add up to 100, every bank
\* but the last in sorted code order gets round(total * share / 100, 2), the
\* last gets total minus the running sum, and the target amounts add up to
\* the total balance exactly.
C2_TargetsSumToTotal ==
    plan.status = "ok" =>
        LET t == plan.target_bank_amounts
            n == Len(t)
        IN  /\ n >= 2
            /\ plan.total_balance = LiveTotal
            /\ SumTargetShares(t, n) = Hundred
            /\ \A i, j \in 1..n :
                  i < j => CodeRank[t[i].bank] < CodeRank[t[j].bank]
            /\ \A i \in 1..(n - 1) :
                  IsRounded(t[i].target_amount, plan.total_balance,
                            t[i].target_share)
            /\ t[n].target_amount =
                  plan.total_balance - SumTargets(t, n - 1)
            /\ SumTargets(t, n) = plan.total_balance

\* a plan in which the last bank's own rounded value would have missed the
\* total
C2_Witness ==
    /\ plan.status = "ok"
    /\ LET t == plan.target_bank_amounts
           n == Len(t)
       IN  /\ ~IsRounded(t[n].target_amount, plan.total_balance,
                          t[n].target_share)
           /\ SumTargets(t, n) = plan.total_balance
           /\ plan.total_balance > 0

\* C3: every instruction of a computed plan has an amount above zero, and
\* none has the same counterparty and the same account on both sides.
C3_NoZeroNoSelfTransfer ==
    plan.status = "ok" =>
        \A k \in 1..Len(plan.payments_list) :
            LET p == plan.payments_list[k]
            IN  /\ p.amount > 0
                /\ ~(/\ p.source_bank_id = p.destination_bank_id
                     /\ p.source_account_id = p.destination_account_id)

\* the matcher paired an account id with itself, that instruction was
\* dropped and another instruction was returned
C3_Witness ==
    /\ plan.status = "ok"
    /\ Len(plan.payments_list) >= 1
    /\ \E k \in 1..Len(Matched(plan.target_account_balances)) :
          LET p == Matched(plan.target_account_balances)[k]
          IN  /\ p.source_account_id = p.destination_account_id
              /\ p.source_bank_id = p.destination_bank_id

\* the counterparties that appear error-free in the snapshot
LiveBanks ==
    {b \in Banks : \E i \in 1..Len(external_accounts) :
        /\ external_accounts[i].bank = b
        /\ external_accounts[i].account # NoAccount
        /\ ~external_accounts[i].error}

\* the row an update replaces, the rows of the counterparty a create is for
SetAside(r) ==
    \/ verdict.op = "update" /\ r.id = verdict.arg
    \/ verdict.op = "create" /\ r.bank = verdict.arg

ExistingSum ==
    SumShares({r \in allocations :
                  r.bank \in LiveBanks /\ r.share # NoShare /\ ~SetAside(r)})

\* the counterparties that hold an explicit share once the operation is done
ExplicitAfter ==
    {r.bank : r \in {x \in allocations : x.share # NoShare /\ ~SetAside(x)}}
    \cup (IF verdict.op = "create" THEN {verdict.arg}
          ELSE {r.bank : r \in {x \in allocations : x.id = verdict.arg}})

ShouldReject ==
    \/ ExistingSum + verdict.share > Hundred
    \/ /\ LiveBanks \subseteq ExplicitAfter
       /\ ExistingSum + verdict.share # Hundred

\* C4 as stated: a candidate is rejected exactly when the sum exceeds 100 or
\* every live counterparty would hold an explicit share and the sum is not
\* 100, and maxAllowed is 100 - existingSum.
C4_RejectExactly ==
    verdict.op # "none" =>
        /\ verdict.out.ok <=> ~ShouldReject
        /\ verdict.out.max = Hundred - ExistingSum

\* C4, with the case of a snapshot without live counterparty set apart: the
\* rule of C4_RejectExactly holds when at least one counterparty is live;
\* with none every candidate is accepted and maxAllowed is 100.
C4_RejectExactlyWhenLive ==
    verdict.op # "none" =>
        /\ LiveBanks # {} => (verdict.out.ok <=> ~ShouldReject)
        /\ LiveBanks = {} => verdict.out.ok
        /\ verdict.out.max = Hundred - ExistingSum

\* a candidate that keeps the sum within 100 was refused because every live
\* counterparty would hold a share and the sum is not 100
C4_Witness ==
    /\ verdict.op # "none"
    /\ LiveBanks # {}
    /\ ~verdict.out.ok
    /\ ExistingSum + verdict.share < Hundred
    /\ LiveBanks \subseteq ExplicitAfter
    /\ verdict.out.max = Hundred - ExistingSum

\* the entries of the snapshot that hold an account and no error
ValidAt ==
    {i \in 1..Len(external_accounts) :
        /\ external_accounts[i].account # NoAccount
        /\ ~external_accounts[i].error}

\* the live counterparties without an explicit stored share
EmptyBanks ==
    {b \in LiveBanks :
        ~\E r \in allocations : r.bank = b /\ r.share # NoShare}

StoredSum ==
    SumShares({r \in allocations : r.bank \in LiveBanks /\ r.share # NoShare})

\* A returns one account with 900, B one with 100, A's share is 70 and B
\* has none
C13_Case(A, B, i, j) ==
    /\ A # B
    /\ ValidAt = {i, j}
    /\ external_accounts[i].bank = A /\ external_accounts[i].balance = 90000
    /\ external_accounts[j].bank = B /\ external_accounts[j].balance = 10000
    /\ \A r \in allocations : r.bank # B
    /\ \E r \in allocations : r.bank = A
    /\ \A r \in allocations : r.bank = A => r.share = 7000

\* C13: in that case the plan gives B the share 30, the targets 700.00 for A
\* and 300.00 for B, and exactly one instruction, 200.00 from A's account to
\* B's account.
C13_EndToEndPlan ==
    \A A, B \in Banks : \A i, j \in 1..Len(external_accounts) :
        C13_Case(A, B, i, j) /\ plan # NoPlan =>
            /\ plan.status = "ok"
            /\ \A k \in 1..Len(plan.target_bank_amounts) :
                  LET t == plan.target_bank_amounts[k]
                  IN  /\ t.bank = A =>
                           t.target_share = 7000 /\ t.target_amount = 70000
                      /\ t.bank = B =>
                           t.target_share = 3000 /\ t.target_amount = 30000
            /\ Len(plan.payments_list) = 1
            /\ plan.payments_list[1].amount = 20000
            /\ plan.payments_list[1].source_account_id
                  = external_accounts[i].account
            /\ plan.payments_list[1].destination_account_id
                  = external_accounts[j].account
            /\ plan.payments_list[1].source_bank_id = A
            /\ plan.payments_list[1].destination_bank_id = B

IsExact(total, share) == ((total % Hundred) * share) % Hundred = 0

ExactAmount(total, share) ==
    (total \div Hundred) * share + ((total % Hundred) * share) \div Hundred

\* C15: when total * share / 100 has at most two fraction digits for every
\* live counterparty, every target, the last one included, is exactly
\* total * share / 100.
C15_ExactTargets ==
    plan.status = "ok" =>
        LET t == plan.target_bank_amounts
        IN  (\A k \in 1..Len(t) :
                IsExact(plan.total_balance, t[k].target_share))
            => \A k \in 1..Len(t) :
                  t[k].target_amount =
                     ExactAmount(plan.total_balance, t[k].target_share)

\* shares 33.33, 33.33 and 33.34 of a total of 100.00 gave the targets
\* 33.33, 33.33 and 33.34
C15_Witness ==
    /\ plan.status = "ok"
    /\ plan.total_balance = 10000
    /\ Len(plan.target_bank_amounts) = 3
    /\ \E last \in 1..3 :
          \A k \in 1..3 :
             LET t == plan.target_bank_amounts[k]
             IN  /\ t.target_share = IF k = last THEN 3334 ELSE 3333
                 /\ t.target_amount = t.target_share
    /\ \A b \in Banks : \E r \in allocations :
          r.bank = b /\ r.share # NoShare

(***************************************************************************)
(* Properties of the response cache                                        *)
(***************************************************************************)
\* the cache keys the two key builders give a client
KeysOf(client) ==
    {client_key_builder(f, client) :
        f \in {"get_external_accounts", "get_balance_allocations"}}
    \cup {client_page_key_builder("get_external_payment_history", client, p) :
             p \in Pages}

\* C11: once an invalidation for a client has returned, the cache holds no
\* entry of that client, neither under a key without a page nor under a key
\* with a page.
C11_InvalidationDeletesAll ==
    [][\A c \in Clients :
          (\/ refresh_external_payment_history(c, TRUE)
           \/ refresh_external_accounts(c, TRUE))
             => \A e \in cache' : e.key \notin KeysOf(c)]_vars

\* C12: a request for the merged accounts with force_refresh set is never
\* answered from the cache, its body always runs.
C12_ForceRefreshBypassesCache ==
    [][\A c \in Clients :
          get_external_accounts(c, TRUE) =>
             /\ ~served'.hit
             /\ runs' = runs + 1]_vars

(***************************************************************************)
(* Properties of the allocation endpoints                                  *)
(***************************************************************************)

\* the verdict of the validation a create request meets, if it gets there
CreateVerdict(b, share) ==
    validate_target_share_sum(share, external_accounts, NoId, b)

\* the verdict of the validation an update request meets, if it gets there
UpdateVerdict(id, share) ==
    validate_target_share_sum(share, external_accounts, id, NoId)

\* C18: a create or update request whose share fails the validation is
\* answered with an error that carries the validation message, and no
\* allocation row is created, changed or deleted by it.
C18_ValidationFailureAborts ==
    [][/\ \A b \in Banks, share \in TargetShares, t \in AccountTypes :
             /\ ~\E r \in allocations : r.bank = b /\ r.type = t
             /\ ~CreateVerdict(b, share).ok
             /\ \E ok \in BOOLEAN : create_balance_allocation(b, share, t, ok)
             => /\ allocations' = allocations
                /\ reply'.code = 400
                /\ reply'.detail = CreateVerdict(b, share).msg
                /\ reply'.detail # ""
       /\ \A id \in {r.id : r \in allocations}, share \in TargetShares :
             /\ ~UpdateVerdict(id, share).ok
             /\ \E ok \in BOOLEAN : update_balance_allocation(id, share, ok)
             => /\ allocations' = allocations
                /\ reply'.code = 400
                /\ reply'.detail = UpdateVerdict(id, share).msg
                /\ reply'.detail # ""]_vars

\* an update of one of two stored rows was refused by the validation
C18_Witness ==
    /\ reply.op = "update"
    /\ reply.code = 400
    /\ reply.detail \in {"exceeds", "incomplete"}
    /\ Cardinality(allocations) = 2

\* C19: after a create, update or delete has committed, a list request is
\* never answered from a cache entry written before that commit, whatever
\* happened during the invalidation.
C19_ListNeverStale ==
    [][get_balance_allocations /\ served'.hit
          => served'.stamp > reply.at]_vars

\* C20: computing the plan is advisory: it leaves every allocation row and
\* every account balance as they were and creates no payment.
C20_PlanIsAdvisory ==
    [][apply_balance_allocations =>
          /\ allocations' = allocations
          /\ external_accounts' = external_accounts
          /\ payments' = payments]_vars

\* a plan with an instruction was computed from stored rows
C20_Witness ==
    /\ plan.status = "ok"
    /\ plan.payments_list # <<>>
    /\ allocations # {}
    /\ payments = {}

(***************************************************************************)
(* Properties of overlapping aggregation calls                             *)
(***************************************************************************)

\* calls that sent a consent request and were answered with a consent id
Granted == {p \in Calls : calls[p].pc = "fetch" /\ calls[p].sent}

\* C21: nothing serialises overlapping calls: every call that found no
\* active consent sends its own consent request, and every such call that
\* is answered with an id has persisted its own active Consent, so two
\* calls that both looked up before either committed leave two active
\* consents for the same client and counterparty.
C21_RaceLeavesDuplicates ==
    /\ \A p \in Granted :
          NewConsent(RaceBank, calls[p].consent_id) \in bankConsents
    /\ \A p, q \in Granted : p # q => calls[p].consent_id # calls[q].consent_id
    /\ Cardinality(ActiveConsents(RaceBank)) >= Cardinality(Granted)

\* two calls started with no active consent on file, each sent a consent
\* request, and two active consents are stored
C21_Witness ==
    /\ Cardinality(Granted) = 2
    /\ Cardinality(ActiveConsents(RaceBank)) = 2
    /\ \A r \in ActiveConsents(RaceBank) : \E p \in Granted : calls[p].consent_id = r.cid

(***************************************************************************)
(* Properties of the consents the aggregation stores                       *)
(***************************************************************************)

\* at most one active Consent is stored per counterparty
UniqueActive(rows) ==
    \A b \in Banks :
        Cardinality({r \in rows : r.bank = b /\ r.status = "active"}) <= 1

\* C22: non-overlapping aggregation calls keep the active consent of a
\* client and a counterparty unique: no step of a call takes the store from
\* at most one active Consent per counterparty to more than one.
C22_UniqueActivePreserved ==
    [][UniqueActive(bankConsents) => UniqueActive(bankConsents')]_vars

(***************************************************************************)
(* Properties of the payment endpoint                                      *)
(***************************************************************************)

\* the reference names a row that is active and has not expired
LivePayConsent(cid) ==
    /\ cid \in 1..Len(paymentConsents)
    /\ paymentConsents[cid].status = "active"
    /\ now < paymentConsents[cid].exp

\* the error a cross-party payment request is to be answered with, or ""
ConsentFailure(party, cid) ==
    IF cid = NoId THEN "PAYMENT_CONSENT_REQUIRED"
    ELSE IF ~LivePayConsent(cid) THEN "INVALID_CONSENT"
    ELSE IF paymentConsents[cid].granted_to # party THEN "CONSENT_MISMATCH"
    ELSE ""

\* C24: a cross-party payment request without a consent reference is
\* answered PAYMENT_CONSENT_REQUIRED, one whose reference matches no active
\* unexpired consent INVALID_CONSENT, one whose consent was granted to
\* another party CONSENT_MISMATCH; in each case the request ends there: no
\* payment is initiated and no consent changes.
C24_ConsentFailuresSurface ==
    [][\A party \in Parties, cid \in PayRefs, initiation \in BOOLEAN :
          /\ ConsentFailure(party, cid) # ""
          /\ create_payment(Payer, party, cid, initiation)
          => /\ resp'.code = 403
             /\ resp'.status = ConsentFailure(party, cid)
             /\ payments' = payments
             /\ paying' = paying
             /\ paymentConsents' = paymentConsents]_vars

\* a request presenting an active, unexpired consent of another party was
\* answered CONSENT_MISMATCH
C24_Witness ==
    /\ resp.op = "create_payment"
    /\ resp.status = "CONSENT_MISMATCH"
    /\ LivePayConsent(resp.consent)
    /\ paymentConsents[resp.consent].granted_to # resp.party
    /\ payments = {}

(***************************************************************************)
(* Properties of the statuses                                              *)
(***************************************************************************)

\* every row of a table is kept, and a row whose status is not the given
\* one keeps its status
KeepsSettled(old, new, open) ==
    /\ Len(new) >= Len(old)
    /\ \A i \in 1..Len(old) :
          old[i].status # open => new[i].status = old[i].status

\* C23: a consent request that has left pending never changes status again,
\* a consent (of an own client, obtained from a counterparty, or for
\* payments) that has left active never changes status again, and no
\* request and no consent is ever deleted, under every interleaving of
\* request, sign, revoke, aggregation and payment steps.
C23_StatusesTerminal ==
    [][/\ KeepsSettled(requests, requests', "pending")
       /\ KeepsSettled(consents, consents', "active")
       /\ KeepsSettled(paymentConsents, paymentConsents', "active")
       /\ \A r \in bankConsents :
             \E q \in bankConsents' :
                /\ q.cid = r.cid
                /\ q.bank = r.bank
                /\ r.status # "active" => q.status = r.status]_vars

\* a signed request, a revoked consent, a consent expired by a 403 and a
\* used payment consent, with a second payment on that consent in flight
C23_Witness ==
    /\ \E i \in 1..Len(requests) : requests[i].status = "approved"
    /\ \E i \in 1..Len(consents) : consents[i].status = "revoked"
    /\ \E r \in bankConsents : r.status = "expired"
    /\ \E i \in 1..Len(paymentConsents) :
          /\ paymentConsents[i].status = "used"
          /\ \E k \in 1..Len(paying) : paying[k].consent = i

(***************************************************************************)
(* Properties of the balance fetches                                       *)
(***************************************************************************)

\* the entries a step appended to the result
Appended == SubSeq(agg'.accounts, Len(agg.accounts) + 1, Len(agg'.accounts))

\* C25: when a counterparty answers the account list, every listed account
\* gets its entry, in list order and with an empty error, whatever happens
\* to its balance fetch; the entry holds the amount when the fetch returned
\* one and no balance otherwise, so a failed fetch changes nothing but the
\* balance of its own account; the entries gathered before are kept and
\* the loop goes on to the next counterparty.
C25_BalanceFailureIsLocal ==
    [][\A n \in 0..MaxFetched, trunc \in BOOLEAN :
          \A bal \in [1..n -> BalanceOutcomes] :
             AggFetchResp("200", n, trunc, bal) =>
                /\ Len(Appended) = n + (IF trunc THEN 1 ELSE 0)
                /\ \A k \in 1..n :
                      /\ Appended[k].bank = CurrentBank
                      /\ Appended[k].account = k
                      /\ Appended[k].error = ""
                      /\ Appended[k].balance = "none" <=> bal[k] # "ok"
                /\ SubSeq(agg'.accounts, 1, Len(agg.accounts)) = agg.accounts
                /\ agg'.pc = "loop"
                /\ agg'.i = agg.i + 1]_vars

\* a finished call: the balance fetch of the first of two accounts of a
\* counterparty failed, the second account has its balance, and a
\* counterparty served later returned an account with its balance
C25_Witness ==
    /\ agg.pc = "done"
    /\ \E j \in 1..(Len(agg.accounts) - 2) :
          /\ agg.accounts[j].account = 1
          /\ agg.accounts[j].balance = "none"
          /\ agg.accounts[j].error = ""
          /\ agg.accounts[j + 1].bank = agg.accounts[j].bank
          /\ agg.accounts[j + 1].account = 2
          /\ agg.accounts[j + 1].balance # "none"
          /\ \E m \in (j + 2)..Len(agg.accounts) :
                /\ agg.accounts[m].bank # agg.accounts[j].bank
                /\ agg.accounts[m].account # 0
                /\ agg.accounts[m].balance # "none"

\* C26: a configured counterparty without a bearer token gets exactly one
\* entry, with error 'Token not available'; for it no consent is read or
\* changed (also when its stored consents would make the lookup fail), no
\* request is sent, and the loop goes on to the next counterparty.
C26_TokenMissingFrame ==
    [][/\ agg.pc = "loop"
       /\ agg.i <= Len(external_banks)
       /\ bankOk[CurrentBank]
       /\ ~agg.tokens[CurrentBank]
       => /\ Appended = <<[bank |-> CurrentBank, account |-> 0,
                           balance |-> "none",
                           error |-> "Token not available"]>>
          /\ SubSeq(agg'.accounts, 1, Len(agg.accounts)) = agg.accounts
          /\ bankConsents' = bankConsents
          /\ nextCid' = nextCid
          /\ agg'.log = agg.log
          /\ agg'.pc = "loop"
          /\ agg'.i = agg.i + 1]_vars

\* a finished call: a counterparty without a token, with two active
\* consents on file, has its single entry and no request in the log, and a
\* counterparty served after it returned an account
C26_Witness ==
    /\ agg.pc = "done"
    /\ \E b, c \in Banks :
          /\ b < c
          /\ bankOk[b] /\ ~agg.tokens[b]
          /\ Cardinality(ActiveConsents(b)) = 2
          /\ Cardinality(EntriesOf(b)) = 1
          /\ \A k \in EntriesOf(b) :
                agg.accounts[k].error = "Token not available"
          /\ \A j \in LogIdx : agg.log[j].bank # b
          /\ \E k \in EntriesOf(c) : agg.accounts[k].account # 0

(***************************************************************************)
(* Properties of the matcher                                               *)
(***************************************************************************)

\* current balance minus target of a row of target_account_balances
Delta(row) == row.current_balance - row.target_balance

\* the rows above and below target, in the order of discovery
SurplusQueue == SelectSeq(plan.target_account_balances, LAMBDA r : Delta(r) > Eps)

DeficitQueue == SelectSeq(plan.target_account_balances, LAMBDA r : Delta(r) < -Eps)

\* the instructions the loop emits, before the filter
Emitted == Matched(plan.target_account_balances)

\* the sum of the amounts of the instructions before j that pos puts at the
\* same queue position as j
RECURSIVE Drawn(_, _, _, _)
Drawn(L, pos, j, i) ==
    IF i >= j THEN 0
    ELSE (IF pos[i] = pos[j] THEN L[i].amount ELSE 0) + Drawn(L, pos, j, i + 1)

\* L walks both queues front to back: s and d give the queue positions of
\* the source and the destination of each instruction
Drains(L, s, d) ==
    /\ \A j \in 1..Len(L) :
          /\ L[j].source_account_id = SurplusQueue[s[j]].account_id
          /\ L[j].destination_account_id = DeficitQueue[d[j]].account_id
          /\ L[j].amount > Eps
          /\ L[j].amount =
                Min(Delta(SurplusQueue[s[j]]) - Drawn(L, s, j, 1),
                    -Delta(DeficitQueue[d[j]]) - Drawn(L, d, j, 1))
    /\ \A j \in 1..(Len(L) - 1) : s[j] <= s[j + 1] /\ d[j] <= d[j + 1]

\* C27: the matcher drains both queues in discovery order: the sources of
\* the emitted instructions stand at non-decreasing positions of the
\* surplus queue, the destinations at non-decreasing positions of the
\* deficit queue, every amount is the smaller of what is left of the two
\* heads, and every amount exceeds epsilon; the returned list is the
\* emitted one without the instructions the filter removes.
C27_GreedyDrain ==
    plan.status = "ok" =>
       /\ \E s \in [1..Len(Emitted) -> 1..Len(SurplusQueue)],
             d \in [1..Len(Emitted) -> 1..Len(DeficitQueue)] :
             Drains(Emitted, s, d)
       /\ plan.payments_list = SelectSeq(Emitted, KeepPayment)

\* two instructions were emitted and returned: the first drains the head of
\* one queue, the second continues with what is left of the other head
C27_Witness ==
    /\ plan.status = "ok"
    /\ Len(plan.payments_list) = 2
    /\ \/ Len(SurplusQueue) = 2 /\ Len(DeficitQueue) = 1
       \/ Len(SurplusQueue) = 1 /\ Len(DeficitQueue) = 2

\* the rows of target_account_balances an instruction names as source or
\* as destination: the account with that id at that bank
NamedBy(bank_id, account_id) ==
    {k \in 1..Len(plan.target_account_balances) :
        /\ plan.target_account_balances[k].bank = bank_id
        /\ plan.target_account_balances[k].account_id = account_id}

SourcesOf(p) == NamedBy(p.source_bank_id, p.source_account_id)

DestinationsOf(p) == NamedBy(p.destination_bank_id, p.destination_account_id)

\* C28: an account is the source of an instruction only if its balance
\* exceeds its target by more than epsilon, the destination only if it
\* falls short of it by more than epsilon; an account within epsilon of
\* its target is in no instruction, and no account is a source in one
\* instruction and a destination in another.
C28_QueueMembership ==
    plan.status = "ok" =>
       LET P == plan.payments_list
           T == plan.target_account_balances
       IN  /\ \A j \in 1..Len(P) :
                 /\ \A k \in SourcesOf(P[j]) : Delta(T[k]) > Eps
                 /\ \A k \in DestinationsOf(P[j]) : Delta(T[k]) < -Eps
           /\ \A i, j \in 1..Len(P) :
                 SourcesOf(P[i]) \cap DestinationsOf(P[j]) = {}

\* C29: the plan is a function of the snapshot and the set of stored rows:
\* whatever order the store returns the rows in, the computation yields the
\* plan that was returned, also when a bank has rows for several account
\* types.
C29_PlanDeterministic ==
    plan # NoPlan =>
       \A by_bank \in KeptRows : ComputePlan(external_accounts, by_bank) = plan

(***************************************************************************)
(* Properties of the reuse of a stored consent                             *)
(***************************************************************************)

\* the active Consent rows on file for a counterparty
StoredActive(b) == {r \in bankConsents : r.bank = b /\ r.status = "active"}

\* the requests a step put on the wire
Sent == SubSeq(agg'.log, Len(agg.log) + 1, Len(agg'.log))

\* C30: when the loop reaches a counterparty that holds a token and has
\* exactly one active consent on file, the call sends GET /accounts with
\* that consent's id and no consent request; when that fetch is answered
\* with anything but 403, the balance requests present the same id, no
\* consent request is sent and no Consent row is created or changed; and a
\* call that got its account list leaves an active consent on file, so the
\* next call finds one and sends no initial consent request.
C30_ConsentReuse ==
    [][/\ (/\ agg.pc = "loop"
           /\ agg.i <= Len(external_banks)
           /\ bankOk[CurrentBank]
           /\ agg.tokens[CurrentBank]
           /\ Cardinality(StoredActive(CurrentBank)) = 1)
          => /\ Len(Sent) = 1
             /\ Sent[1].kind = "accounts"
             /\ \A r \in StoredActive(CurrentBank) : Sent[1].cid = r.cid
             /\ bankConsents' = bankConsents
             /\ nextCid' = nextCid
       /\ (/\ agg.pc = "fetch"
           /\ agg.consent # NoId
           /\ agg'.log[Len(agg.log)].res # "403")
          => /\ \A j \in 1..Len(Sent) :
                   Sent[j].kind = "balance" /\ Sent[j].cid = agg.consent
             /\ bankConsents' = bankConsents
             /\ nextCid' = nextCid
             /\ agg'.pc = "loop"
       /\ (/\ agg.pc = "done"
           /\ \E j \in LogIdx :
                 /\ agg.log[j].kind = "accounts"
                 /\ agg.log[j].bank = external_banks[1]
                 /\ agg.log[j].res = "200")
          => StoredActive(external_banks[1]) # {}]_vars

\* the second of two calls has returned: it presented the consent the first
\* call had obtained, got the account list, and sent no consent request
C30_Witness ==
    /\ agg.pc = "done"
    /\ budget = 0
    /\ \A j \in LogIdx : agg.log[j].kind # "consent"
    /\ \E j \in LogIdx :
          /\ agg.log[j].kind = "accounts"
          /\ agg.log[j].res = "200"
          /\ agg.log[j].cid > 2 * Len(external_banks)
          /\ StoredActive(external_banks[1]) =
                {NewConsent(external_banks[1], agg.log[j].cid)}

(***************************************************************************)
(* Properties of the recovery after a rejected consent                     *)
(***************************************************************************)

\* C31: once the counterparty accepts every consent request and answers 200
\* to every fetch presenting the consent it issued last, a later call made
\* on its own returns no error entry for that counterparty, whatever
\* rejections, failed consent requests and failed retries the earlier
\* calls met.
C31_RecoversAfterRejection ==
    (/\ agg.pc = "done"
     /\ Recovered
     /\ agg.tokens[external_banks[1]])
    => \A k \in EntriesOf(external_banks[1]) : agg.accounts[k].error = ""

\* C32: every emitted instruction names as source counterparty the one that
\* holds its source account and as destination counterparty the one that
\* holds its destination account, also when two counterparties use the same
\* account id; an instruction between two different counterparties passes
\* the self-transfer filter.
C32_InstructionBanks ==
    plan.status = "ok" =>
       \E s \in [1..Len(Emitted) -> 1..Len(SurplusQueue)],
          d \in [1..Len(Emitted) -> 1..Len(DeficitQueue)] :
          /\ Drains(Emitted, s, d)
          /\ \A j \in 1..Len(Emitted) :
                /\ Emitted[j].source_bank_id = SurplusQueue[s[j]].bank
                /\ Emitted[j].destination_bank_id = DeficitQueue[d[j]].bank
                /\ SurplusQueue[s[j]].bank # DeficitQueue[d[j]].bank
                      => KeepPayment(Emitted[j])

(***************************************************************************)
(* Properties of the stored target shares                                  *)
(***************************************************************************)

\* the stored rows that carry a share for a bank of the live snapshot
LiveTargets ==
    {r \in allocations :
        /\ r.share # NoShare
        /\ r.bank \in bank_codes_with_accounts(external_accounts)}

\* C33: with the live snapshot unchanged, whatever create, update and
\* delete requests were served, the stored shares of the live banks sum to
\* at most 100.
C33_StoredSumBounded == SumShares(LiveTargets) <= Hundred

(***************************************************************************)
(* Properties of the target amounts                                        *)
(***************************************************************************)

\* C34: with balances that are not negative and shares between 0 and 100
\* that sum to 100, no counterparty gets a negative target amount, the last
\* one in sorted order included, whose amount is the total less the rounded
\* amounts of the others.
C34_TargetsNotNegative ==
    plan.status = "ok" =>
       \A j \in 1..Len(plan.target_bank_amounts) :
          /\ plan.target_bank_amounts[j].target_share \in 0..Hundred
          /\ plan.target_bank_amounts[j].target_amount >= 0

\* the sum of the values f takes on the positions in S
RECURSIVE SumAt(_, _)
SumAt(f, S) ==
    IF S = {} THEN 0
    ELSE LET k == CHOOSE x \in S : TRUE
         IN  f[k] + SumAt(f, S \ {k})

\* C35: the per-account targets of a counterparty sum to its target amount,
\* so the per-account targets of all accounts sum to the total balance and
\* the surpluses sum to the same amount as the deficits.
C35_AccountTargetsAddUp ==
    plan.status = "ok" =>
       LET T == plan.target_account_balances
           A == plan.target_bank_amounts
           target == [k \in 1..Len(T) |-> T[k].target_balance]
           delta == [k \in 1..Len(T) |-> Delta(T[k])]
       IN  /\ \A j \in 1..Len(A) :
                 SumAt(target, {k \in 1..Len(T) : T[k].bank = A[j].bank})
                    = A[j].target_amount
           /\ SumAt(target, 1..Len(T)) = plan.total_balance
           /\ SumAt(delta, {k \in 1..Len(T) : delta[k] > 0})
                 = -SumAt(delta, {k \in 1..Len(T) : delta[k] < 0})

\* what an account has above its target, and what it lacks
Surplus(row) == IF Delta(row) > 0 THEN Delta(row) ELSE 0

Deficit(row) == IF Delta(row) < 0 THEN -Delta(row) ELSE 0

\* C36: for every account, the instructions that name it as their source
\* move at most its surplus out of it, and the instructions that name it
\* as their destination move at most its deficit into it.
C36_NeverPastTarget ==
    plan.status = "ok" =>
       LET P == plan.payments_list
           T == plan.target_account_balances
           amount == [j \in 1..Len(P) |-> P[j].amount]
       IN  \A k \in 1..Len(T) :
              /\ SumAt(amount, {j \in 1..Len(P) : k \in SourcesOf(P[j])})
                    <= Surplus(T[k])
              /\ SumAt(amount, {j \in 1..Len(P) : k \in DestinationsOf(P[j])})
                    <= Deficit(T[k])

(***************************************************************************)
(* Properties of the matching loop, followed iteration by iteration        *)
(***************************************************************************)

\* C37: every iteration of the matching loop leaves the surplus head, the
\* deficit head or both, so with s surplus and d deficit accounts
\* (s, d >= 1) the loop makes at most s + d - 1 iterations and emits at
\* most one instruction in each; when a queue is empty it makes none and
\* emits nothing.
C37_LoopBounded ==
    plan.status = "matching" =>
       LET s == Len(plan.surplus_accounts)
           d == Len(plan.deficit_accounts)
       IN  /\ plan.iterations <= (plan.surplus_idx - 1) + (plan.deficit_idx - 1)
           /\ plan.surplus_idx <= s + 1
           /\ plan.deficit_idx <= d + 1
           /\ Len(plan.payments_list) <= plan.iterations
           /\ (s >= 1 /\ d >= 1) => plan.iterations <= s + d - 1
           /\ (s = 0 \/ d = 0) => plan.iterations = 0

\* the loop has ended after s + d - 1 = 2 iterations that each emitted an
\* instruction
C37_Witness ==
    /\ plan.status = "matching"
    /\ Len(plan.surplus_accounts) + Len(plan.deficit_accounts) = 3
    /\ \/ plan.surplus_idx > Len(plan.surplus_accounts)
       \/ plan.deficit_idx > Len(plan.deficit_accounts)
    /\ plan.iterations = 2
    /\ Len(plan.payments_list) = 2

(***************************************************************************)
(* Properties of the use of a payment consent                              *)
(***************************************************************************)

\* the payments initiated with a consent
PaidWith(cid) == {p \in payments : p.consent = cid}

\* C38: whatever the interleaving of the cross-party payment requests that
\* present it, a payment consent has at most one payment initiated with it.
C38_OnePaymentPerConsent ==
    \A cid \in 1..Len(paymentConsents) : Cardinality(PaidWith(cid)) <= 1

(***************************************************************************)
(* Properties of the shape of the aggregated result                        *)
(***************************************************************************)

\* the positions of the returned list where bank b has an error entry
ErrorsOf(b) == {k \in EntriesOf(b) : agg.accounts[k].error # ""}

\* C39: every entry of the returned list holds an account and no error, or
\* an error and neither account nor balance; a counterparty has at most one
\* error entry in the list, and never an error entry next to account
\* entries.
C39_ResultShape ==
    /\ \A k \in 1..Len(agg.accounts) :
          \/ agg.accounts[k].account # 0 /\ agg.accounts[k].error = ""
          \/ /\ agg.accounts[k].error # ""
             /\ agg.accounts[k].account = 0
             /\ agg.accounts[k].balance = "none"
    /\ \A b \in Banks :
          /\ Cardinality(ErrorsOf(b)) <= 1
          /\ ErrorsOf(b) = {} \/ ErrorsOf(b) = EntriesOf(b)

====
